---- MODULE Spec2Model ----
(***************************************************************************)
(* PromptNest on-device semantic subsystem (utils/ai.js) and the prompt    *)
(* storage helpers (utils/storage.js), modelled as asynchronous tasks on   *)
(* one event loop.  A task is one call of a public operation; one action   *)
(* is the code a task runs between two suspension points (await of the     *)
(* pipeline loader, of an inference call, of chrome.storage, of setStatus).*)
(* Awaits of purely local async helpers (resolveTensor, cosineSimilarity,  *)
(* toVector, meanPoolAndNormalize) touch no shared state and are folded    *)
(* into the step that follows them.                                        *)
(***************************************************************************)
EXTENDS Integers, Sequences, FiniteSets, Bags, TLC

\* ---------------------------------------------------------------- bounds
\* Calls of public operations that can be in flight at once.
NumTasks == 2
NumLabels == 2
MaxText == 1
MaxPrompts == 2

\* LABEL_CANDIDATES, cut down to NumLabels labels, in their array order.
Labels == 1..NumLabels

\* ------------------------------------------------------ texts and vectors
\* A text is a code: 0 is the empty (or whitespace-only) string, 1..MaxText
\* are user texts, CtxBase + x is "<userContext> <x>" and LabelBase + l is
\* the text of label l.
CtxBase == 10
LabelBase == 20
NoVec == 0
PlainTexts == 0..MaxText
LabelText(l) == LabelBase + l

\* The stub inference provider: a fixed model maps a text to one vector.
\* Vectors are named by the code of the text they were computed from.
Infer(text) == text

\* What one inference call (modelPipeline -> resolveTensor ->
\* meanPoolAndNormalize) can yield inside embedText: the vector, or null
\* when the provider throws/rejects or the output shape is unrecognised.
EmbedOutcomes(text) == {Infer(text), NoVec}

\* The cosine similarity, in hundredths, of the stub vectors of two
\* different texts lo < hi.  The fixed model puts some pairs on and just
\* above the thresholds the features compare with (0.25, 0.4, 0.92) and
\* gives two labels the same similarity to one text.
SimOfPair(lo, hi) ==
    CASE <<lo, hi>> = <<1, 2>> -> 92
      [] <<lo, hi>> = <<1, 3>> -> 25
      [] <<lo, hi>> = <<2, 3>> -> 26
      [] <<lo, hi>> = <<1, LabelBase + 1>> -> 40
      [] <<lo, hi>> = <<1, LabelBase + 2>> -> 41
      [] <<lo, hi>> = <<1, LabelBase + 3>> -> 93
      [] <<lo, hi>> = <<CtxBase + 1, LabelBase + 1>> -> 60
      [] <<lo, hi>> = <<CtxBase + 1, LabelBase + 2>> -> 60
      [] <<lo, hi>> = <<CtxBase + 1, LabelBase + 3>> -> 41
      [] OTHER -> ((lo * 7 + hi * 3) % 8) * 10 + 11

\* Cosine similarity of two stub vectors, in hundredths (lines 369-389):
\* 0 when a vector is missing, 1 for a unit vector and itself, symmetric.
Sim(a, b) ==
    IF a = NoVec \/ b = NoVec THEN 0
    ELSE IF a = b THEN 100
    ELSE IF a < b THEN SimOfPair(a, b) ELSE SimOfPair(b, a)

VARIABLES
    dom,                    \* "present" | "absent": is there a document (popup) or not
    userContext,            \* chrome.storage.local userContext: 0 = none, 1 = set
    chatHistory,            \* chrome.storage.local chatHistory: a sequence, newest first
    modelPipeline,          \* 0 = null, k >= 1 = the pipeline function the loader resolved to
    modelLoadingPromise,    \* 0 = null, 1 = the promise of the load in flight
    aiAvailable,
    labelsReady,
    labelEmbeddingCache,    \* [Labels -> vector or NoVec (no entry)]
    badge,                  \* text of the #ai-status badge
    rehydratingEmbeddings,
    textEmbeddingCache,     \* [prompt id -> vector or NoVec (no entry)]
    semanticEmbeddingCache, \* [cache key (the prompt id) -> vector or NoVec]
    store,                  \* chrome.storage.local 'prompts': a sequence of prompts
    task,                   \* the calls in flight: a bag of call records
    \* history of the run, read only by the properties
    ret,                    \* the call that returned last: its op and result
    lastLoad,               \* how the last settled load ended: "none" | "ok" | "failed"
    loaderInFlight,         \* invocations of transformers.pipeline not yet settled
    labelCalls,             \* [Labels -> inference calls made for that label, 2 = more than one]
    lastLoaderBy            \* op of the task that last invoked the loader ("none" at start)

vars == <<dom, userContext, chatHistory, modelPipeline, modelLoadingPromise, aiAvailable,
          labelsReady, labelEmbeddingCache, badge, rehydratingEmbeddings,
          textEmbeddingCache, semanticEmbeddingCache, store, task,
          ret, lastLoad, loaderInFlight, labelCalls, lastLoaderBy>>

lifeVars == <<modelPipeline, modelLoadingPromise, aiAvailable, labelsReady,
              badge, lastLoad, loaderInFlight, lastLoaderBy>>

\* The state of the prompt store and of rehydration.
storeVars == <<rehydratingEmbeddings, textEmbeddingCache, semanticEmbeddingCache, store>>

\* The lifecycle state that only initModel writes.
loadVars == <<modelPipeline, modelLoadingPromise, aiAvailable, badge, lastLoad>>

\* The state of the model lifecycle and of the label cache.
modelVars == <<lifeVars, labelEmbeddingCache, labelCalls>>

\* ------------------------------------------------------------ call records
\* One call of a public operation, suspended at pc.  Calls carry no
\* identity: two calls of the same operation at the same place with the same
\* locals are interchangeable, hence a bag.
NewCall(op, pc) ==
    [op |-> op, pc |-> pc, text |-> 0, idx |-> 0, vec |-> NoVec, during |-> FALSE,
     list |-> <<>>, arg |-> <<>>, changed |-> FALSE, failed |-> FALSE, after |-> "none",
     query |-> 0, calls |-> 0, vecs |-> <<>>]

\* No suspended call: the caller of a step that is the start of a call.
NoCall == NewCall("none", "none")

Running == BagToSet(task)

CanStart == BagCardinality(task) < NumTasks

One(r) == SetToBag({r})

\* The calls in flight without the call r.
Leave(r) == IF r = NoCall THEN task ELSE task (-) One(r)

\* What a returning call leaves in ret: op and res, and what the properties
\* need to know of how it ran.
\*   early       an initModel call issued during a load returned before that load settled
\*   arg         the id a storage helper was called with
\*   busy        rehydrate: the busy flag was set when the call arrived
\*   wrote       rehydrate: storage writes issued
\*   whole       rehydrate: what was written was the whole updated collection
\*   gained      rehydrate: prompts that gained an embedding
\*   failed      rehydrate: an inference call yielded null
\*   writeFailed rehydrate: the storage write rejected
\*   after       rehydrate: the call came straight after another rehydrate ("none" if not):
\*               "clean" if that one had no failed inference and no failed write
\*   query       semanticSearch, isDuplicate: the text the call was given
\*   list        semanticSearch, isDuplicate, rehydrate: the prompts the call was given
\*   calls       semanticSearch, isDuplicate, suggestTags: inference calls the call made;
\*               chat history helpers: entries of the history the call read
\*   seen        isDuplicate: the last prompt of the list whose vector was resolved;
\*               chat history helpers: id of the oldest entry the call read, 0 if none
\*   path        semanticSearch: the return taken: "empty" (empty query),
\*               "unavailable", "queryFailed" or "semantic"
\*   vecs        semanticSearch: the vector resolved for each candidate, NoVec if none
Ret(op, res) ==
    [op |-> op, res |-> res, early |-> FALSE, arg |-> 0, busy |-> FALSE, wrote |-> 0,
     whole |-> TRUE, gained |-> 0, failed |-> FALSE, writeFailed |-> FALSE,
     after |-> "none", query |-> 0, list |-> <<>>, calls |-> 0, seen |-> 0,
     path |-> "none", vecs |-> <<>>]

\* The call r (NoCall: a call just issued) suspends as r2.
Goto(r, r2) ==
    /\ task' = Leave(r) (+) One(r2)
    /\ ret' = ret

\* A new call suspends as r2.
Start(r2) == Goto(NoCall, r2)

\* The call r returns res to its caller.
Return(r, res) ==
    /\ task' = task (-) One(r)
    /\ ret' = Ret(r.op, res)

\* A call that returns within the step that issued it.
ReturnAtOnce(op, res) ==
    /\ task' = task
    /\ ret' = Ret(op, res)

RECURSIVE BagSum(_, _)
BagSum(B, S) ==
    IF S = {} THEN 0
    ELSE LET e == CHOOSE x \in S : TRUE IN B[e] + BagSum(B, S \ {e})

Bump(n) == IF n >= 2 THEN 2 ELSE n + 1

\* ------------------------------------------------------ dependent features
\* A slip: a feature that finds the model unavailable starts a load itself.
LoaderInvoked_WhenUnavailable(op) ==
    IF aiAvailable \/ loaderInFlight > 0
    THEN UNCHANGED <<loaderInFlight, lastLoaderBy>>
    ELSE loaderInFlight' = 1 /\ lastLoaderBy' = op

\* embedText, precomputeLabelEmbeddings, semanticSearch, suggestTags,
\* isDuplicate and rehydratePromptEmbeddings (lines 336-356, 408-422,
\* 467-666) contain no call of initModel or of the pipeline loader: a step
\* of the feature op invokes no loader, whatever the state.
LoaderNotInvoked(op) == UNCHANGED <<loaderInFlight, lastLoaderBy>>

\* ------------------------------------------------------------- embedText
\* Variant: the guard without the test of the trimmed text.
EmbedGuard_AnyText(text, avail, pipe) == avail /\ pipe # 0

\* embedText's synchronous prefix: null without an inference call when the
\* text is empty or the model is unavailable; otherwise modelPipeline(text)
\* is invoked and awaited.
EmbedGuard(text, avail, pipe) == text # 0 /\ avail /\ pipe # 0

\* --------------------------------------------------------------- suggestTags
\* Labels still to rank, best first: the stable descending sort of
\* scoredLabels picks, among equal similarities, the earlier label.
RECURSIVE SortedLabels(_, _)
SortedLabels(S, score) ==
    IF S = {} THEN <<>>
    ELSE LET best == CHOOSE l \in S :
                       \A m \in S : score[l] > score[m] \/ (score[l] = score[m] /\ l <= m)
         IN  <<best>> \o SortedLabels(S \ {best}, score)

\* Variant: the labels above 0.4 in the order of the vocabulary, unsorted.
ScoreLabels_FirstTwo(vec, cache) ==
    LET kept == SelectSeq([l \in DOMAIN cache |-> l], LAMBDA l : Sim(vec, cache[l]) > 40)
    IN  IF Len(kept) <= 2 THEN kept ELSE SubSeq(kept, 1, 2)

\* suggestTags lines 547-559: score every label of the vocabulary (the
\* labels the cache is over) against the cache, keep similarity > 0.4, sort
\* descending, return the first two label names.
ScoreLabels(vec, cache) ==
    LET score == [l \in DOMAIN cache |-> Sim(vec, cache[l])]
        kept == {l \in DOMAIN cache : score[l] > 40}
        sorted == SortedLabels(kept, score)
    IN  IF Len(sorted) <= 2 THEN sorted ELSE SubSeq(sorted, 1, 2)

\* ------------------------------------------------- precomputeLabelEmbeddings
\* Where the caller of precomputeLabelEmbeddings goes when it returns:
\* initModel awaits setStatus('AI Ready'); suggestTags scores the labels
\* against the cache and returns.
AfterPrecompute(r, rec, cache) ==
    IF rec.op = "initModel"
    THEN Goto(r, [rec EXCEPT !.pc = "ready_status", !.idx = 0])
    ELSE Return(r, ScoreLabels(rec.vec, cache))

\* A slip: the labels count as ready only when every label has a vector.
ReadyAfterLoop_OnlyComplete(cache) == \A l \in DOMAIN cache : cache[l] # NoVec

\* Line 421: labelsReady = true once the loop is over, whatever it cached.
ReadyAfterLoop(cache) == TRUE

\* The for-loop of precomputeLabelEmbeddings from label i on, up to its next
\* suspension.  embedText(label) either invokes the pipeline (the task then
\* waits in "pre_embed") or returns null at once; label texts are not empty,
\* so a null without a call repeats for every later label and the loop runs
\* to its end, where labelsReady is set.
LabelLoop(r, i, rec, avail, pipe, cache) ==
    IF i <= NumLabels /\ EmbedGuard(LabelText(i), avail, pipe)
    THEN /\ Goto(r, [rec EXCEPT !.pc = "pre_embed", !.idx = i])
         /\ labelCalls' = [labelCalls EXCEPT ![i] = Bump(@)]
         /\ labelsReady' = labelsReady
    ELSE /\ AfterPrecompute(r, rec, cache)
         /\ labelCalls' = labelCalls
         /\ labelsReady' = ReadyAfterLoop(cache)

\* The entry guard of precomputeLabelEmbeddings (line 409).
PrecomputeSkips(avail, ready) == ~avail \/ ready

precomputeLabelEmbeddings(r, rec, avail, pipe, cache) ==
    IF PrecomputeSkips(avail, labelsReady)
    THEN /\ AfterPrecompute(r, rec, cache)
         /\ labelCalls' = labelCalls
         /\ labelsReady' = labelsReady
    ELSE LabelLoop(r, 1, rec, avail, pipe, cache)

\* An inference call for label r.idx settles (initModel's or
\* suggestTags' precompute): cache the vector if there is one, go on with
\* the next label.
precompute_embedDone(r, out) ==
    /\ r.pc = "pre_embed"
    /\ LET i == r.idx
           cache == IF out # NoVec
                    THEN [labelEmbeddingCache EXCEPT ![i] = out]
                    ELSE labelEmbeddingCache
       IN  /\ labelEmbeddingCache' = cache
           /\ LabelLoop(r, i + 1, r, aiAvailable, modelPipeline, cache)
    /\ LoaderNotInvoked(r.op)
    /\ UNCHANGED <<storeVars, dom, userContext, chatHistory, loadVars>>

\* ------------------------------------------------------------------ initModel
\* A slip: the fast path is never taken, a call with the model loaded
\* loads it again.
AlreadyLoaded_Never == FALSE

\* Line 426: the model is loaded, nothing to do but refresh the badge.
AlreadyLoaded == modelPipeline # 0 /\ aiAvailable

\* A slip: the in-flight promise is never consulted, every call loads.
JoinsLoad_Never == FALSE

\* Line 431: a call that finds a load in flight returns its promise.
JoinsLoad == modelLoadingPromise # 0

\* Lines 426-460, the synchronous part of a call: the fast path awaits
\* setStatus('AI Ready'); a call during a load returns the load's promise;
\* otherwise the async IIFE starts, is stored in modelLoadingPromise and
\* runs up to its await of setStatus('Loading AI...').
initModel_call ==
    /\ CanStart
    /\ LET rec == [NewCall("initModel", "join") EXCEPT !.during = modelLoadingPromise # 0]
       IN  IF AlreadyLoaded
           THEN /\ Start([rec EXCEPT !.pc = "fast_status"])
                /\ modelLoadingPromise' = modelLoadingPromise
           ELSE IF JoinsLoad
           THEN /\ Start(rec)
                /\ modelLoadingPromise' = modelLoadingPromise
           ELSE /\ Start([rec EXCEPT !.pc = "load_status"])
                /\ modelLoadingPromise' = 1
    /\ UNCHANGED <<storeVars, dom, userContext, chatHistory, modelPipeline, aiAvailable, labelsReady,
                   labelEmbeddingCache, badge, lastLoad, loaderInFlight,
                   labelCalls, lastLoaderBy>>

\* setStatus (lines 236-260) as awaited by its callers: it rejects when
\* there is no document, and otherwise leaves `text` in the badge.
StatusThrows == dom = "absent"

\* The fast path's await of setStatus('AI Ready') ends (lines 427-428).
initModel_fastStatus(r) ==
    /\ r.pc = "fast_status"
    /\ task' = task (-) One(r)
    /\ ret' = [Ret("initModel", IF StatusThrows THEN "rejected" ELSE "true")
                  EXCEPT !.early = r.during]
    /\ badge' = IF StatusThrows THEN badge ELSE "AI Ready"
    /\ UNCHANGED <<storeVars, dom, userContext, chatHistory, modelPipeline, modelLoadingPromise, aiAvailable,
                   labelsReady, labelEmbeddingCache, lastLoad, loaderInFlight,
                   labelCalls, lastLoaderBy>>

\* The catch block up to its await (lines 449-453).
Catch(r) ==
    /\ aiAvailable' = FALSE
    /\ modelPipeline' = 0
    /\ labelsReady' = FALSE
    /\ Goto(r, [r EXCEPT !.pc = "fail_status", !.idx = 0])

\* The IIFE resumes after setStatus('Loading AI...') (lines 437-443): a
\* rejected setStatus or a missing window.transformers runtime goes to the
\* catch block; otherwise the pipeline loader is invoked and awaited.
initModel_loadStatus(r, runtime) ==
    /\ r.pc = "load_status"
    /\ IF StatusThrows \/ ~runtime
       THEN /\ Catch(r)
            /\ badge' = IF StatusThrows THEN badge ELSE "Loading AI..."
            /\ UNCHANGED <<loaderInFlight, lastLoaderBy>>
       ELSE /\ badge' = "Loading AI..."
            /\ loaderInFlight' = loaderInFlight + 1
            /\ lastLoaderBy' = r.op
            /\ Goto(r, [r EXCEPT !.pc = "loading"])
            /\ UNCHANGED <<aiAvailable, modelPipeline, labelsReady>>
    /\ UNCHANGED <<storeVars, dom, userContext, chatHistory, modelLoadingPromise, labelEmbeddingCache,
                   lastLoad, labelCalls>>

\* A slip: what the loader resolved to is not stored.
PipelineSet_Lost(resolved) == modelPipeline

\* Line 443: modelPipeline = await window.transformers.pipeline(...).
PipelineSet(resolved) == resolved

\* The loader settles (lines 443-445).  Resolved: the pipeline and the flag
\* are set together, then precomputeLabelEmbeddings runs to its first
\* inference call.  Rejected: the catch block.
initModel_loaderSettles(r, ok) ==
    /\ r.pc = "loading"
    /\ loaderInFlight' = loaderInFlight - 1
    /\ IF ok
       THEN /\ modelPipeline' = PipelineSet(1)
            /\ aiAvailable' = TRUE
            /\ precomputeLabelEmbeddings(r, r, TRUE, 1, labelEmbeddingCache)
       ELSE /\ Catch(r)
            /\ labelCalls' = labelCalls
    /\ UNCHANGED <<storeVars, dom, userContext, chatHistory, modelLoadingPromise, labelEmbeddingCache, badge,
                   lastLoad, lastLoaderBy>>

\* A slip: the finally block leaves the settled promise in place.
Finally_KeepsPromise == modelLoadingPromise

\* The finally block (line 456): modelLoadingPromise = null.
Finally == 0

\* The load's promise settles with res after the finally block cleared
\* modelLoadingPromise; every call that was handed this promise settles
\* with it, and no call is any longer "issued during a load in flight".
Settle(r, res) ==
    /\ modelLoadingPromise' = Finally
    /\ lastLoad' = IF res = "true" THEN "ok" ELSE "failed"
    /\ ret' = Ret("initModel", res)
    /\ LET rest == {u \in Running : u # r /\ u.pc # "join"}
           after(u) == [u EXCEPT !.during = FALSE]
       IN  task' = [x \in {after(u) : u \in rest} |->
                      BagSum(task, {u \in rest : after(u) = x})]

\* setStatus('AI Ready') ends (lines 446-447, 456); a rejection is caught.
initModel_readyStatus(r) ==
    /\ r.pc = "ready_status"
    /\ IF StatusThrows
       THEN /\ Catch(r)
            /\ UNCHANGED <<badge, modelLoadingPromise, lastLoad>>
       ELSE /\ badge' = "AI Ready"
            /\ Settle(r, "true")
            /\ UNCHANGED <<aiAvailable, modelPipeline, labelsReady>>
    /\ UNCHANGED <<storeVars, dom, userContext, chatHistory, labelEmbeddingCache, loaderInFlight,
                   labelCalls, lastLoaderBy>>

\* setStatus('AI Unavailable') ends (lines 453-456): the promise resolves
\* false, or rejects when setStatus itself rejected inside the catch block.
initModel_failStatus(r) ==
    /\ r.pc = "fail_status"
    /\ IF StatusThrows
       THEN /\ badge' = badge
            /\ Settle(r, "rejected")
       ELSE /\ badge' = "AI Unavailable"
            /\ Settle(r, "false")
    /\ UNCHANGED <<storeVars, dom, userContext, chatHistory, modelPipeline, aiAvailable, labelsReady,
                   labelEmbeddingCache, loaderInFlight, labelCalls, lastLoaderBy>>

\* ----------------------------------------------------------------- embedText
\* A direct call of the public AI.embedText (lines 336-356).
embedText_call(text) ==
    /\ CanStart
    /\ IF EmbedGuard(text, aiAvailable, modelPipeline)
       THEN Start([NewCall("embedText", "embed") EXCEPT !.text = text])
       ELSE ReturnAtOnce("embedText", NoVec)
    /\ LoaderNotInvoked("embedText")
    /\ UNCHANGED <<storeVars, dom, userContext, chatHistory, loadVars, labelsReady, labelEmbeddingCache,
                   labelCalls>>

embedText_done(r, out) ==
    /\ r.pc = "embed"
    /\ Return(r, out)
    /\ LoaderNotInvoked("embedText")
    /\ UNCHANGED <<storeVars, dom, userContext, chatHistory, loadVars, labelsReady, labelEmbeddingCache,
                   labelCalls>>

\* --------------------------------------------------------------- suggestTags
\* Line 536: the text embedded is "<userContext> <text>" trimmed, or the
\* trimmed text when there is no context.
ContextualText(ctx, text) == IF ctx = 0 THEN text ELSE CtxBase + text

\* A slip: no fallback to '', a failed read leaves a context that is not
\* empty.
ContextRead_Undefined(readOk) == IF readOk THEN userContext ELSE 1

\* Lines 529-534: the stored userContext, or '' when the read threw or
\* rejected.
ContextRead(readOk) == IF readOk THEN userContext ELSE 0

\* Lines 523-530: [] when unavailable, else await the userContext read.
suggestTags_call(text) ==
    /\ CanStart
    /\ IF ~aiAvailable
       THEN ReturnAtOnce("suggestTags", <<>>)
       ELSE Start([NewCall("suggestTags", "tags_ctx") EXCEPT !.text = text])
    /\ LoaderNotInvoked("suggestTags")
    /\ UNCHANGED <<storeVars, dom, userContext, chatHistory, loadVars, labelsReady, labelEmbeddingCache,
                   labelCalls>>

\* The storage read settles (lines 530-537): a rejection is swallowed and
\* the context is empty.  Then embedText(contextualText) starts.
suggestTags_ctx(r, readOk) ==
    /\ r.pc = "tags_ctx"
    /\ LET ctx == ContextRead(readOk)
           text == ContextualText(ctx, r.text)
       IN  IF EmbedGuard(text, aiAvailable, modelPipeline)
           THEN Goto(r, [r EXCEPT !.pc = "tags_embed", !.text = text])
           ELSE Return(r, <<>>)
    /\ LoaderNotInvoked("suggestTags")
    /\ UNCHANGED <<storeVars, dom, userContext, chatHistory, loadVars, labelsReady, labelEmbeddingCache,
                   labelCalls>>

\* embedText(contextualText) settles (lines 537-546): [] on null; else
\* precompute the labels if they are not ready, then score them.
suggestTags_embedDone(r, out) ==
    /\ r.pc = "tags_embed"
    /\ IF out = NoVec
       THEN /\ Return(r, <<>>)
            /\ UNCHANGED <<labelsReady, labelCalls>>
       ELSE LET rec == [r EXCEPT !.vec = out, !.text = 0]
            IN  IF ~labelsReady
                THEN precomputeLabelEmbeddings(r, rec, aiAvailable, modelPipeline,
                                               labelEmbeddingCache)
                ELSE /\ AfterPrecompute(r, rec, labelEmbeddingCache)
                     /\ UNCHANGED <<labelsReady, labelCalls>>
    /\ LoaderNotInvoked("suggestTags")
    /\ UNCHANGED <<storeVars, dom, userContext, chatHistory, loadVars, labelEmbeddingCache>>

\* ------------------------------------------------------------------- prompts
\* A prompt is [id, title, text, tags, emb]: title and text are text codes,
\* tags a sequence of text codes, emb the persisted embedding, NoVec when
\* the field is absent (or an empty array).  Stored prompts have an empty
\* title and no tags unless a specification says otherwise.
PromptIds == 1..MaxPrompts

Prompt(id, text, emb) == [id |-> id, title |-> 0, text |-> text, tags |-> <<>>, emb |-> emb]

\* What chrome.storage.local holds under 'prompts' as the popup opens:
\* MaxPrompts prompts that have a text and no embedding yet.
StoredPrompts == [i \in PromptIds |-> Prompt(i, 1 + (i % MaxText), NoVec)]

\* ----------------------------------------------------------- deletePrompt
\* The prompts the user deletes: the first and the last of the list.
DeletableIds == {1, MaxPrompts}

deletePrompt_call(id) ==
    /\ CanStart
    /\ Start([NewCall("deletePrompt", "del_read") EXCEPT !.idx = id])
    /\ UNCHANGED <<storeVars, dom, userContext, chatHistory, modelVars>>

\* Line 98: the prompts of the state just read, without the one deleted.
WithoutPrompt(prompts, id) == SelectSeq(prompts, LAMBDA p : p.id # id)

\* readState settles (lines 97-99): filter, then writeState is awaited.
deletePrompt_read(r) ==
    /\ r.pc = "del_read"
    /\ Goto(r, [r EXCEPT !.pc = "del_write", !.list = WithoutPrompt(store, r.idx)])
    /\ UNCHANGED <<storeVars, dom, userContext, chatHistory, modelVars>>

\* writeState settles (lines 99-100): the write has replaced the stored
\* prompts, or it rejected and the call rejects with it.  Nothing else is
\* touched: utils/storage.js has no access to the caches of utils/ai.js.
deletePrompt_write(r, ok) ==
    /\ r.pc = "del_write"
    /\ store' = IF ok THEN r.list ELSE store
    /\ task' = task (-) One(r)
    /\ ret' = [Ret("deletePrompt", IF ok THEN "ok" ELSE "rejected") EXCEPT !.arg = r.idx]
    /\ UNCHANGED <<rehydratingEmbeddings, textEmbeddingCache, semanticEmbeddingCache, dom,
                   userContext, chatHistory, modelVars>>

\* ----------------------------------------------------------- updatePrompt
\* The prompt the user edits: the first of the list.
EditableIds == {1}

updatePrompt_call(id, text) ==
    /\ CanStart
    /\ Start([NewCall("updatePrompt", "upd_read") EXCEPT !.idx = id, !.text = text])
    /\ UNCHANGED <<storeVars, dom, userContext, chatHistory, modelVars>>

\* Lines 79-89: the prompt with the id is replaced by {...item, ...updates}
\* for updates = {text}; every other field of it, embedding included, and
\* every other prompt is kept.
WithUpdatedText(prompts, id, text) ==
    [i \in 1..Len(prompts) |->
        IF prompts[i].id = id THEN [prompts[i] EXCEPT !.text = text] ELSE prompts[i]]

\* readState settles (lines 78-91): map, then writeState is awaited.
updatePrompt_read(r) ==
    /\ r.pc = "upd_read"
    /\ Goto(r, [r EXCEPT !.pc = "upd_write", !.list = WithUpdatedText(store, r.idx, r.text)])
    /\ UNCHANGED <<storeVars, dom, userContext, chatHistory, modelVars>>

\* writeState settles (lines 91-92): the write has replaced the stored
\* prompts, or it rejected and the call rejects with it.  The caches of
\* utils/ai.js are out of reach of utils/storage.js.
updatePrompt_write(r, ok) ==
    /\ r.pc = "upd_write"
    /\ store' = IF ok THEN r.list ELSE store
    /\ task' = task (-) One(r)
    /\ ret' = [Ret("updatePrompt", IF ok THEN "ok" ELSE "rejected") EXCEPT !.arg = r.idx]
    /\ UNCHANGED <<rehydratingEmbeddings, textEmbeddingCache, semanticEmbeddingCache, dom,
                   userContext, chatHistory, modelVars>>

\* ------------------------------------------------------------ chat history
\* Line 12.
HISTORY_CAP == 50

\* An entry of the chat history (lines 117-124): its id, and whether
\* updateChatHistory has merged updates into it.  Platform, title, url and
\* messages play no part in what is kept.
ChatEntry(id) == [id |-> id, updated |-> FALSE]

\* A history of n entries as n createChatHistory calls leave it: newest first.
StoredHistory(n) == [i \in 1..n |-> ChatEntry(n + 1 - i)]

ChatOps == {"createChatHistory", "updateChatHistory", "deleteChatHistory"}

\* The ids of stored entries and of the entries that calls in flight hold.
ChatIdsInUse ==
    {chatHistory[i].id : i \in 1..Len(chatHistory)}
        \cup UNION {{r.list[i].id : i \in 1..Len(r.list)} : r \in {q \in Running : q.op \in ChatOps}}

\* createId (line 37) builds the id from the clock and a random number:
\* an id that no entry stored or in flight has, later than the ids of the
\* entries stored as the run begins.
FreshChatId ==
    LET used == ChatIdsInUse \cup {HISTORY_CAP}
    IN  1 + (CHOOSE m \in used : \A x \in used : x <= m)

\* The entry updateChatHistory and deleteChatHistory are called for: the
\* newest of a full history, which a shorter history does not have.
ChatTargets == {HISTORY_CAP}

Capped_Uncut(list) == list

\* Line 126: slice(0, HISTORY_CAP).
Capped(list) == SubSeq(list, 1, IF Len(list) < HISTORY_CAP THEN Len(list) ELSE HISTORY_CAP)

\* Lines 134-141: the entry with the id is replaced by its merge with the updates.
WithUpdatedEntry(history, id) ==
    [i \in 1..Len(history) |->
        IF history[i].id = id THEN [history[i] EXCEPT !.updated = TRUE] ELSE history[i]]

\* Line 152.
WithoutEntry(history, id) == SelectSeq(history, LAMBDA e : e.id # id)

\* The id of the last entry of the history the call r read, 0 if it read none.
OldestRead(r) == IF r.arg = <<>> THEN 0 ELSE r.arg[Len(r.arg)].id

\* writeState({chatHistory}) settles (lines 31-34): the write has replaced the
\* stored history by the list the call built, or it rejected and the call
\* rejects with it.  ret keeps the id the call was about, how many entries it
\* had read and the id of the oldest of them.
WriteChatHistory(r, ok) ==
    /\ chatHistory' = IF ok THEN r.list ELSE chatHistory
    /\ task' = task (-) One(r)
    /\ ret' = [Ret(r.op, IF ok THEN "ok" ELSE "rejected") EXCEPT !.arg = r.idx, !.calls = Len(r.arg), !.seen = OldestRead(r)]
    /\ UNCHANGED <<storeVars, dom, userContext, modelVars>>

\* Line 116: readState is awaited.
createChatHistory_call ==
    /\ CanStart
    /\ FreshChatId <= HISTORY_CAP + NumTasks
    /\ Start(NewCall("createChatHistory", "chat_read"))
    /\ UNCHANGED <<storeVars, dom, userContext, chatHistory, modelVars>>

\* readState settles (lines 116-127): the entry is built, put in front of the
\* history just read, the list is cut to the cap and writeState is awaited.
createChatHistory_read(r) ==
    /\ r.op = "createChatHistory"
    /\ r.pc = "chat_read"
    /\ Goto(r, [r EXCEPT !.pc = "chat_write", !.idx = FreshChatId, !.arg = chatHistory,
                         !.list = Capped(<<ChatEntry(FreshChatId)>> \o chatHistory)])
    /\ UNCHANGED <<storeVars, dom, userContext, chatHistory, modelVars>>

\* Lines 127-129.
createChatHistory_write(r, ok) ==
    /\ r.op = "createChatHistory"
    /\ r.pc = "chat_write"
    /\ WriteChatHistory(r, ok)

\* Line 133.
updateChatHistory_call(id) ==
    /\ CanStart
    /\ Start([NewCall("updateChatHistory", "chat_read") EXCEPT !.idx = id])
    /\ UNCHANGED <<storeVars, dom, userContext, chatHistory, modelVars>>

\* readState settles (lines 133-146): map, then writeState is awaited.
updateChatHistory_read(r) ==
    /\ r.op = "updateChatHistory"
    /\ r.pc = "chat_read"
    /\ Goto(r, [r EXCEPT !.pc = "chat_write", !.arg = chatHistory,
                         !.list = WithUpdatedEntry(chatHistory, r.idx)])
    /\ UNCHANGED <<storeVars, dom, userContext, chatHistory, modelVars>>

\* Lines 146-147.
updateChatHistory_write(r, ok) ==
    /\ r.op = "updateChatHistory"
    /\ r.pc = "chat_write"
    /\ WriteChatHistory(r, ok)

\* Line 151.
deleteChatHistory_call(id) ==
    /\ CanStart
    /\ Start([NewCall("deleteChatHistory", "chat_read") EXCEPT !.idx = id])
    /\ UNCHANGED <<storeVars, dom, userContext, chatHistory, modelVars>>

\* readState settles (lines 151-154): filter, then writeState is awaited.
deleteChatHistory_read(r) ==
    /\ r.op = "deleteChatHistory"
    /\ r.pc = "chat_read"
    /\ Goto(r, [r EXCEPT !.pc = "chat_write", !.arg = chatHistory,
                         !.list = WithoutEntry(chatHistory, r.idx)])
    /\ UNCHANGED <<storeVars, dom, userContext, chatHistory, modelVars>>

\* Lines 154-155.
deleteChatHistory_write(r, ok) ==
    /\ r.op = "deleteChatHistory"
    /\ r.pc = "chat_write"
    /\ WriteChatHistory(r, ok)

\* Line 159: writeState({chatHistory: []}) is awaited; nothing is read.
clearChatHistory_call ==
    /\ CanStart
    /\ Start(NewCall("clearChatHistory", "chat_write"))
    /\ UNCHANGED <<storeVars, dom, userContext, chatHistory, modelVars>>

\* Lines 159-161.
clearChatHistory_write(r, ok) ==
    /\ r.op = "clearChatHistory"
    /\ r.pc = "chat_write"
    /\ WriteChatHistory(r, ok)

\* ------------------------------------------------- rehydratePromptEmbeddings
HasEmbedding_Never(p) == FALSE

\* Line 633: the prompt has a non-empty persisted embedding.
HasEmbedding(p) == p.emb # NoVec

\* An argument that is no array (null, undefined, an object): a list whose
\* one item is no prompt.
NotAnArray == <<[t |-> "null"]>>

\* Array.isArray(prompts).
IsArray(prompts) == ~(Len(prompts) = 1 /\ "t" \in DOMAIN prompts[1])

RehydrateGuard_NoExclusion(prompts) ==
    ~aiAvailable \/ ~IsArray(prompts) \/ prompts = <<>>

\* A slip: an empty list is turned away only when no rehydration runs.
RehydrateGuard_EmptyUnguarded(prompts) ==
    ~aiAvailable \/ ~IsArray(prompts) \/ (rehydratingEmbeddings /\ prompts # <<>>)

\* Line 620: the call is a no-op when the model is unavailable, a
\* rehydration is running, the argument is no array or there are no prompts.
RehydrateGuard(prompts) ==
    ~aiAvailable \/ rehydratingEmbeddings \/ ~IsArray(prompts) \/ prompts = <<>>

\* Lines 630-640: the first prompt from index i on for which embedText
\* makes an inference call: it lacks an embedding and embedText does not
\* return null at once.  Len + 1 when there is none.
RECURSIVE NextToEmbed(_, _)
NextToEmbed(list, i) ==
    IF i > Len(list) THEN i
    ELSE IF ~HasEmbedding(list[i]) /\ EmbedGuard(list[i].text, aiAvailable, modelPipeline)
         THEN i
         ELSE NextToEmbed(list, i + 1)

\* Prompts of the call's list that carry an embedding its argument lacked.
Gained(rec) ==
    Cardinality({i \in 1..Len(rec.arg) : ~HasEmbedding(rec.arg[i]) /\ HasEmbedding(rec.list[i])})

WrittenValue_OnlyGained(rec) ==
    SelectSeq(rec.list, LAMBDA p : p.emb # NoVec)

\* Line 656: the value written under PROMPTS_KEY is nextPrompts.
WrittenValue(rec) == rec.list

\* The written value is the argument with, in place of each prompt that
\* gained an embedding, that prompt plus the embedding.
IsWholeCollection(written, rec) ==
    /\ Len(written) = Len(rec.arg)
    /\ \A i \in 1..Len(rec.arg) :
          \/ written[i] = rec.arg[i]
          \/ /\ ~HasEmbedding(rec.arg[i])
             /\ written[i] = [rec.arg[i] EXCEPT !.emb = Infer(rec.arg[i].text)]

\* Line 662: what the catch block returns.
CaughtResult == FALSE

ReleasedFlag_Stuck == rehydratingEmbeddings

\* Lines 663-665: the flag as the finally block leaves it.
ReleasedFlag == FALSE

\* The call returns res, through the finally block.
RehydrateReturn(r, rec, res, wrote, writeFailed) ==
    /\ task' = Leave(r)
    /\ rehydratingEmbeddings' = ReleasedFlag
    /\ ret' = [Ret("rehydrate", res) EXCEPT
                  !.wrote = wrote,
                  !.whole = wrote = 0 \/ IsWholeCollection(WrittenValue(rec), rec),
                  !.gained = Gained(rec),
                  !.failed = rec.failed,
                  !.writeFailed = writeFailed,
                  !.after = rec.after,
                  !.list = rec.arg]

\* The scan (lines 630-659) from index i to its next suspension: an
\* inference call for a prompt without embedding, the storage write if the
\* scan is over and something changed, or the return of false.
RehydrateScan(r, rec, i) ==
    LET j == NextToEmbed(rec.list, i)
    IN  IF j <= Len(rec.list)
        THEN /\ Goto(r, [rec EXCEPT !.pc = "rehy_embed", !.idx = j, !.text = rec.list[j].text])
             /\ rehydratingEmbeddings' = TRUE
        ELSE IF rec.changed
        THEN /\ Goto(r, [rec EXCEPT !.pc = "rehy_write", !.idx = 0, !.text = 0])
             /\ rehydratingEmbeddings' = TRUE
        ELSE RehydrateReturn(r, rec, FALSE, 0, FALSE)

\* This call comes straight after a rehydration that has returned: no call
\* is in flight and the last call to return was a rehydrate that ran.
Succession ==
    IF task = EmptyBag /\ ret.op = "rehydrate" /\ ~ret.busy
    THEN IF ret.failed \/ ret.writeFailed THEN "unclean" ELSE "clean"
    ELSE "none"

\* Lines 619-630: the guard, the busy flag, the copy of the list and the
\* scan up to the first inference call.
rehydrate_call(prompts) ==
    /\ CanStart
    /\ IF RehydrateGuard(prompts)
       THEN /\ task' = task
            /\ ret' = [Ret("rehydrate", FALSE) EXCEPT !.busy = rehydratingEmbeddings,
                                                      !.after = Succession,
                                                      !.list = prompts]
            /\ rehydratingEmbeddings' = rehydratingEmbeddings
       ELSE RehydrateScan(NoCall,
                          [NewCall("rehydrate", "rehy_embed") EXCEPT
                              !.list = prompts, !.arg = prompts, !.after = Succession],
                          1)
    /\ LoaderNotInvoked("rehydrate")
    /\ UNCHANGED <<textEmbeddingCache, semanticEmbeddingCache, store, dom, userContext, chatHistory,
                   loadVars, labelsReady, labelEmbeddingCache, labelCalls>>

\* A slip: the embedding is assigned to the prompt object itself, which the
\* caller's array shares with nextPrompts.
WithEmbedding_InPlace(r, i, out) ==
    [r EXCEPT !.list[i].emb = out, !.arg[i].emb = out, !.changed = TRUE]

\* Lines 643-652: nextPrompts[index] becomes a new object, the prompt
\* spread plus the embedding; the argument and its objects stay as given.
WithEmbedding(r, i, out) ==
    [r EXCEPT !.list[i].emb = out, !.changed = TRUE]

\* embedText settles for prompt r.idx (lines 637-653): on a vector the
\* prompt is replaced in nextPrompts by a copy with the embedding, the
\* per-id cache is filled and changed is set; on null the prompt is skipped.
rehydrate_embedDone(r, out) ==
    /\ r.pc = "rehy_embed"
    /\ LET i == r.idx
           rec == IF out = NoVec
                  THEN [r EXCEPT !.failed = TRUE]
                  ELSE WithEmbedding(r, i, out)
       IN  /\ textEmbeddingCache' =
                  IF out # NoVec /\ r.list[i].id # 0
                  THEN [textEmbeddingCache EXCEPT ![r.list[i].id] = out]
                  ELSE textEmbeddingCache
           /\ RehydrateScan(r, rec, i + 1)
    /\ LoaderNotInvoked("rehydrate")
    /\ UNCHANGED <<semanticEmbeddingCache, store, dom, userContext, chatHistory, loadVars, labelsReady,
                   labelEmbeddingCache, labelCalls>>

\* chrome.storage.local.set settles (lines 656-665): true once the write is
\* done; a rejected write is caught and false returned.
rehydrate_writeDone(r, ok) ==
    /\ r.pc = "rehy_write"
    /\ store' = IF ok THEN WrittenValue(r) ELSE store
    /\ RehydrateReturn(r, r, IF ok THEN r.changed ELSE CaughtResult, 1, ~ok)
    /\ LoaderNotInvoked("rehydrate")
    /\ UNCHANGED <<textEmbeddingCache, semanticEmbeddingCache, dom, userContext, chatHistory, loadVars,
                   labelsReady, labelEmbeddingCache, labelCalls>>

\* ------------------------------------------------------------------ strings
\* The strings behind the text codes that keyword search looks into, as
\* sequences of characters.  Codes 1 and 2 differ in case only, 4 is code 1
\* between blanks, 5 is a blank.
Chars(code) ==
    CASE code = 1 -> <<"a">>
      [] code = 2 -> <<"A">>
      [] code = 3 -> <<"b">>
      [] code = 4 -> <<" ", "a", " ">>
      [] code = 5 -> <<" ">>
      [] code = 6 -> <<"a", " ", "b">>
      [] OTHER -> <<>>

\* The codes that stand for a string of their own.
StringCodes == 0..6

\* The code of a string that has one.
CodeOf(str) == CHOOSE code \in StringCodes : Chars(code) = str

\* String.prototype.toLowerCase.
LowerChar(c) == IF c = "A" THEN "a" ELSE IF c = "B" THEN "b" ELSE c

toLowerCase(str) == [i \in 1..Len(str) |-> LowerChar(str[i])]

\* String.prototype.trim.
RECURSIVE trim(_)
trim(str) ==
    IF str = <<>> THEN <<>>
    ELSE IF Head(str) = " " THEN trim(Tail(str))
    ELSE IF str[Len(str)] = " " THEN trim(SubSeq(str, 1, Len(str) - 1))
    ELSE str

\* String.prototype.includes.
includes(str, part) ==
    \E k \in 0..Len(str) :
        /\ k + Len(part) <= Len(str)
        /\ SubSeq(str, k + 1, k + Len(part)) = part

\* Array.prototype.join(' ') of the strings of the tags.
RECURSIVE join(_)
join(tags) ==
    IF tags = <<>> THEN <<>>
    ELSE IF Len(tags) = 1 THEN Chars(tags[1])
    ELSE Chars(tags[1]) \o <<" ">> \o join(Tail(tags))

\* Variant: the query is used as given, without String.prototype.trim.
TrimCode_None(code) == code

\* The code of the trimmed string of a code.
TrimCode(code) == IF code \in StringCodes THEN CodeOf(trim(Chars(code))) ELSE code

\* --------------------------------------------------------- embedding engine
\* embedText with the raw outputs of the pipeline (lines 263-356).  Numbers
\* are exact rationals <<numerator, denominator>>, denominator positive, in
\* lowest terms; the rounding of Float32Array and of Math.sqrt is left out,
\* and the data are chosen so that every norm has a rational root.
RECURSIVE GCD(_, _)
GCD(a, b) == IF b = 0 THEN a ELSE GCD(b, a % b)

Abs(n) == IF n < 0 THEN 0 - n ELSE n

Q(n, d) ==
    LET g == GCD(Abs(n), d)
    IN  IF n = 0 THEN <<0, 1>> ELSE <<(Abs(n) \div g) * (IF n < 0 THEN 0 - 1 ELSE 1), d \div g>>

QAdd(a, b) == Q(a[1] * b[2] + b[1] * a[2], a[2] * b[2])

QMul(a, b) == Q(a[1] * b[1], a[2] * b[2])

\* a / b for b > 0.
QDiv(a, b) == Q(a[1] * b[2], a[2] * b[1])

ISqrt(n) == CHOOSE k \in 0..n : k * k = n

\* Math.sqrt of a rational that is a square.
QSqrt(a) == <<ISqrt(a[1]), ISqrt(a[2])>>

RECURSIVE QSum(_)
QSum(qs) == IF qs = <<>> THEN <<0, 1>> ELSE QAdd(Head(qs), QSum(Tail(qs)))

\* The sum of the squares of the entries of a vector.
SquaredNorm(v) == QSum([i \in 1..Len(v) |-> QMul(v[i], v[i])])

\* JavaScript values the pipeline may resolve to: numbers, strings (by
\* their length; none of them reads as a number), null, arrays, an object
\* of no known shape, and tensor-like objects whose data is a Float32Array
\* of integers and whose dims is an array of integers.
Num(n) == [t |-> "num", v |-> n]
Str(len) == [t |-> "str", len |-> len]
Null == [t |-> "null"]
Arr(items) == [t |-> "arr", items |-> items]
Obj == [t |-> "obj"]
Tensor(data, dims) == [t |-> "tensor", data |-> data, dims |-> dims]
Vec(v) == [t |-> "vec", v |-> v]
Thrown == [t |-> "thrown"]

\* Array.prototype.flat(depth).
RECURSIVE flat(_, _)
flat(items, depth) ==
    IF items = <<>> THEN <<>>
    ELSE LET first == Head(items)
         IN  (IF first.t = "arr" /\ depth > 0
              THEN flat(first.items, depth - 1)
              ELSE <<first>>) \o flat(Tail(items), depth)

\* Line 269: Number(item) || 0.  A number is itself; a string that does not
\* read as a number, and an array of several items, give NaN, hence 0;
\* null gives 0.
NumberOrZero(item) == IF item.t = "num" THEN item.v ELSE 0

\* output[0]?.length (line 270): the length of a first item that is an
\* array or a string, undefined (0 here, as || treats both alike) else.
FirstLength(items) ==
    IF items = <<>> THEN 0
    ELSE IF items[1].t = "arr" THEN Len(items[1].items)
    ELSE IF items[1].t = "str" THEN items[1].len
    ELSE 0

OrElse(a, b) == IF a = 0 THEN b ELSE a

\* Lines 263-274.
resolveTensor(output) ==
    IF output.t = "tensor" THEN output
    ELSE IF output.t = "arr"
    THEN LET flattened == flat(output.items, 3)
         IN  Tensor([i \in 1..Len(flattened) |-> NumberOrZero(flattened[i])],
                    <<1, OrElse(Len(output.items), 1),
                      OrElse(FirstLength(output.items), Len(flattened))>>)
    ELSE Null

\* source[index] || 0 for a 0-based index.
At(source, index) == IF index + 1 \in 1..Len(source) THEN source[index + 1] ELSE 0

RECURSIVE ColumnSum(_, _, _, _)
ColumnSum(source, rows, cols, col) ==
    IF rows <= 0 THEN 0
    ELSE ColumnSum(source, rows - 1, cols, col) + At(source, (rows - 1) * cols + col)

\* Lines 283-307: the mean over `rows` rows of `cols` columns; new
\* Float32Array(cols) throws a RangeError for a negative length.
Pool(source, rows, cols) ==
    IF cols < 0 THEN Thrown
    ELSE Vec([c \in 1..cols |-> Q(ColumnSum(source, rows, cols, c - 1), OrElse(rows, 1))])

\* Variant: the pooled vector is returned as it is, not normalized.
Normalize_Skipped(pooled) == pooled

\* Lines 316-331: the vector divided by its norm, or the vector itself when
\* the norm is zero.
Normalize(pooled) ==
    LET denominator == QSqrt(SquaredNorm(pooled))
    IN  IF denominator = <<0, 1>> THEN pooled
        ELSE [i \in 1..Len(pooled) |-> QDiv(pooled[i], denominator)]

\* Lines 277-332.
meanPoolAndNormalize(tensor) ==
    LET dims == tensor.dims
        source == tensor.data
        pooled == IF Len(dims) >= 3 THEN Pool(source, dims[Len(dims) - 1], dims[Len(dims)])
                  ELSE IF Len(dims) = 2 THEN Pool(source, dims[1], dims[2])
                  ELSE IF Len(dims) = 1 THEN Vec([i \in 1..Len(source) |-> <<source[i], 1>>])
                  ELSE Null
    IN  IF pooled.t = "vec" THEN Vec(Normalize(pooled.v)) ELSE pooled

\* Variant: no try block, what is thrown leaves embedText.
EmbedResult_Uncaught(raw) ==
    IF raw = Thrown THEN Thrown
    ELSE LET tensor == resolveTensor(raw)
         IN  IF tensor = Null THEN Null ELSE meanPoolAndNormalize(tensor)

\* Lines 344-355 for a settled pipeline call: raw is what it resolved to,
\* or Thrown when it threw or rejected.  Whatever is thrown inside the try
\* block ends in the catch block, which returns null.
EmbedResult(raw) ==
    IF raw = Thrown THEN Null
    ELSE LET tensor == resolveTensor(raw)
         IN  IF tensor = Null THEN Null
             ELSE LET result == meanPoolAndNormalize(tensor)
                  IN  IF result = Thrown THEN Null ELSE result

\* What the pipelines of the modelled models resolve to: tensor-like
\* outputs of rank 3, 2 and 1, one of zero norm, one with an empty and one
\* with a negative dimension; arrays nested 1, 2 and 3 levels deep, some
\* with a leaf that is not a number, and an empty one; an object of no
\* known shape, null, and a call that throws.
RawOutputs ==
    << Tensor(<<3, 4, 3, 4>>, <<1, 2, 2>>),
       Tensor(<<6, 8, 0, 0>>, <<2, 2>>),
       Tensor(<<3, 4>>, <<2>>),
       Tensor(<<0, 0>>, <<1, 1, 2>>),
       Tensor(<<1, 2>>, <<>>),
       Tensor(<<1>>, <<1, 1, 0 - 1>>),
       Arr(<<Num(0), Num(5)>>),
       Arr(<<Arr(<<Num(6), Str(2)>>), Arr(<<Num(0), Num(8)>>)>>),
       Arr(<<Arr(<<Arr(<<Num(3), Num(4), Num(0)>>), Arr(<<Num(3), Num(4), Num(0)>>)>>)>>),
       Arr(<<Str(3), Num(5)>>),
       Arr(<<>>),
       Obj,
       Null,
       Thrown >>

\* A loaded pipeline is one of as many fixed models; model k resolves, for
\* the text of code c, to the same output whenever it is called.
Models == 1..Len(RawOutputs)

PipelineOutput(k, text) == RawOutputs[((k + text) % Len(RawOutputs)) + 1]

\* Lines 336-344: the text is trimmed; null without a pipeline call when it
\* is empty or the model is unavailable, else modelPipeline(inputText) is
\* called and awaited.
embedText_start(text) ==
    /\ CanStart
    /\ LET inputText == TrimCode(text)
       IN  IF EmbedGuard(inputText, aiAvailable, modelPipeline)
           THEN Start([NewCall("embedText", "embed_raw") EXCEPT
                          !.text = inputText, !.query = text, !.idx = modelPipeline,
                          !.calls = 1])
           ELSE /\ task' = task
                /\ ret' = [Ret("embedText", Null) EXCEPT !.query = text]
    /\ LoaderNotInvoked("embedText")
    /\ UNCHANGED <<storeVars, dom, userContext, chatHistory, loadVars, labelsReady, labelEmbeddingCache,
                   labelCalls>>

\* The pipeline call settles (lines 344-355).
embedText_settle(r) ==
    /\ r.pc = "embed_raw"
    /\ task' = task (-) One(r)
    /\ LET raw == PipelineOutput(r.idx, r.text)
       IN  ret' = [Ret("embedText", EmbedResult(raw)) EXCEPT
                      !.query = r.query, !.arg = raw, !.calls = r.calls]
    /\ LoaderNotInvoked("embedText")
    /\ UNCHANGED <<storeVars, dom, userContext, chatHistory, loadVars, labelsReady, labelEmbeddingCache,
                   labelCalls>>

\* ------------------------------------------------------------ semanticSearch
\* Line 202.
SEMANTIC_PROMPT_CAP == 200

keywordMatch_TextOnly(normalized, p) ==
    includes(Chars(p.text), normalized)

\* Lines 399-404: the title, the text or the joined tags, lower-cased,
\* contain the normalized query.
keywordMatch(normalized, p) ==
    \/ includes(toLowerCase(Chars(p.title)), normalized)
    \/ includes(toLowerCase(Chars(p.text)), normalized)
    \/ includes(toLowerCase(join(p.tags)), normalized)

\* Lines 392-405: every prompt for an empty query, else the prompts that
\* match the trimmed, lower-cased query, in input order.
keywordFilter(query, prompts) ==
    LET normalized == toLowerCase(trim(Chars(query)))
    IN  IF normalized = <<>> THEN prompts
        ELSE SelectSeq(prompts, LAMBDA p : keywordMatch(normalized, p))

\* The code of "<title> <text>" for a title and a text that are not empty.
TitleBase == 100

\* Line 498: "<title> <text>" trimmed, title and text trimmed before.
Combined(p) ==
    IF TrimCode(p.title) = 0 THEN TrimCode(p.text)
    ELSE IF TrimCode(p.text) = 0 THEN TrimCode(p.title)
    ELSE TitleBase + 10 * TrimCode(p.title) + TrimCode(p.text)

\* Line 513: a copy of the prompt carrying its score.
Scored(p, score) ==
    [id |-> p.id, title |-> p.title, text |-> p.text, tags |-> p.tags, emb |-> p.emb,
     score |-> score]

IsRelevant_AtLeast(similarity) == similarity >= 25

\* Line 512.
IsRelevant(similarity) == similarity > 25

\* Lines 510-514: the candidate is kept when its similarity exceeds 0.25.
AddScored(scored, vec, p, pv) ==
    IF IsRelevant(Sim(vec, pv)) THEN Append(scored, Scored(p, Sim(vec, pv))) ELSE scored

\* Line 517: the stable sort by descending score.  An entry comes after
\* the entries with a higher score and the earlier entries with its score.
SortByScore(scored) ==
    LET n == Len(scored)
        rank == [i \in 1..n |->
                    1 + Cardinality({j \in 1..n :
                            \/ scored[j].score > scored[i].score
                            \/ scored[j].score = scored[i].score /\ j < i})]
    IN  [k \in 1..n |-> scored[CHOOSE i \in 1..n : rank[i] = k]]

LimitedPrompts_All(prompts) == prompts

\* Line 485: the prompts that are candidates.
LimitedPrompts(prompts) ==
    IF Len(prompts) > SEMANTIC_PROMPT_CAP THEN SubSeq(prompts, 1, SEMANTIC_PROMPT_CAP)
    ELSE prompts

\* Line 494: the key of a prompt in the semantic cache is its id.
SemanticKey(p) == p.id

\* Line 495: Map.get, null for a key the cache has no entry for.
SemanticGet(key) ==
    IF key \in DOMAIN semanticEmbeddingCache THEN semanticEmbeddingCache[key] ELSE NoVec

\* Line 502: Map.set.
\* A slip: the Map is replaced by one that holds the new entry only.
SemanticSet_Fresh(key, vec) ==
    [k \in DOMAIN semanticEmbeddingCache \cup {key} |-> IF k = key THEN vec ELSE NoVec]

SemanticSet(key, vec) ==
    [k \in DOMAIN semanticEmbeddingCache \cup {key} |->
        IF k = key THEN vec ELSE semanticEmbeddingCache[k]]

\* ---------------------------------------------------------------------
\* cosineSimilarity (lines 369-389).  A vector argument is Null or Vec of a
\* sequence of integers.  The result is the number 0 of lines 371 and 385,
\* or the quotient of line 388, kept as its three terms: dot over the
\* product of the square roots of normA and normB.

RECURSIVE DotProduct(_, _)
DotProduct(a, b) ==
    IF a = <<>> THEN 0 ELSE Head(a) * Head(b) + DotProduct(Tail(a), Tail(b))

Quotient(dot, normA, normB) == [t |-> "quotient", dot |-> dot, normA |-> normA, normB |-> normB]

\* Lines 384-386 left out: the quotient whatever the norms.
ZeroNorm_Untested(normA, normB) == FALSE

\* Lines 384-386: !normA || !normB.
ZeroNorm(normA, normB) == normA = 0 \/ normB = 0

cosineSimilarity(vecA, vecB) ==
    IF vecA.t = "null" \/ vecB.t = "null" THEN Num(0)
    ELSE IF Len(vecA.v) # Len(vecB.v) THEN Num(0)
    ELSE LET dot == DotProduct(vecA.v, vecB.v)
             normA == DotProduct(vecA.v, vecA.v)
             normB == DotProduct(vecB.v, vecB.v)
         IN  IF ZeroNorm(normA, normB) THEN Num(0) ELSE Quotient(dot, normA, normB)

\* The vectors a caller passes.
CosineArguments ==
    { Null, Vec(<<>>), Vec(<<0>>), Vec(<<1>>), Vec(<<0, 0>>), Vec(<<1, 0>>), Vec(<<0, 1>>),
      Vec(<<3, 4>>), Vec(<<0 - 1, 0>>), Vec(<<0, 0, 0>>), Vec(<<1, 2, 2>>) }

\* One call of cosineSimilarity: it has no await inside and touches no
\* module state.
cosineSimilarity_call(vecA, vecB) ==
    /\ ret' = [Ret("cosineSimilarity", cosineSimilarity(vecA, vecB)) EXCEPT
                  !.arg = <<vecA, vecB>>]
    /\ UNCHANGED <<dom, userContext, chatHistory, modelPipeline, modelLoadingPromise, aiAvailable,
                   labelsReady, labelEmbeddingCache, badge, rehydratingEmbeddings,
                   textEmbeddingCache, semanticEmbeddingCache, store, task, lastLoad,
                   loaderInFlight, labelCalls, lastLoaderBy>>

\* A null entry of a prompts argument: reading a property of it (lines 398,
\* 494) throws a TypeError.
NullEntry == Prompt(0 - 1, 0, NoVec)

IsNullEntry(p) == p.id = 0 - 1

HasNullEntry(prompts) == \E i \in 1..Len(prompts) : IsNullEntry(prompts[i])

\* The loop of lines 493-515 from candidate i on, up to its next inference
\* call: candidates with a cached vector are scored, candidates for which
\* embedText returns null at once are skipped.  idx is the candidate to
\* embed, or past the end when the loop is over; thrown says that the loop
\* came to a null entry, at idx, and threw.
SearchScan(cands, vec, i, scored, vecs) ==
    LET nulls == {j \in i..Len(cands) : IsNullEntry(cands[j])}
        stop == IF nulls = {} THEN Len(cands) + 1
                ELSE CHOOSE j \in nulls : \A k \in nulls : j <= k
        toEmbed == {j \in i..(stop - 1) :
                       /\ SemanticGet(SemanticKey(cands[j])) = NoVec
                       /\ EmbedGuard(Combined(cands[j]), aiAvailable, modelPipeline)}
        idx == IF toEmbed = {} THEN stop
               ELSE CHOOSE j \in toEmbed : \A k \in toEmbed : j <= k
        cached == SelectSeq(SubSeq(cands, i, idx - 1),
                            LAMBDA p : IsRelevant(Sim(vec, SemanticGet(SemanticKey(p)))))
    IN  [idx |-> idx,
         thrown |-> toEmbed = {} /\ stop <= Len(cands),
         scored |-> scored \o [k \in 1..Len(cached) |->
                                  Scored(cached[k],
                                         Sim(vec, SemanticGet(SemanticKey(cached[k]))))],
         vecs |-> [j \in 1..Len(vecs) |->
                      IF j >= i /\ j < idx THEN SemanticGet(SemanticKey(cands[j]))
                      ELSE vecs[j]]]

\* What a returning semanticSearch call leaves in ret; the path "rejected"
\* is that of a call whose promise rejects.
SearchReturn(rec, res, path) ==
    [Ret("semanticSearch", res) EXCEPT
        !.query = rec.query, !.list = rec.arg, !.calls = rec.calls, !.path = path,
        !.vecs = rec.vecs]

\* Lines 475 and 481: the call returns what keywordFilter returns;
\* Array.prototype.filter (line 397) throws at a null entry.
KeywordReturn(rec, path) ==
    IF HasNullEntry(rec.arg)
    THEN SearchReturn(rec, <<>>, "rejected")
    ELSE SearchReturn(rec, keywordFilter(rec.text, rec.arg), path)

\* The search goes on from candidate i: to the next inference call, or to
\* the sort and the return.
SearchFrom(r, rec, i) ==
    LET cands == LimitedPrompts(rec.arg)
        scan == SearchScan(cands, rec.vec, i, rec.list, rec.vecs)
    IN  IF scan.thrown
        THEN /\ task' = Leave(r)
             /\ ret' = SearchReturn([rec EXCEPT !.vecs = scan.vecs], <<>>, "rejected")
        ELSE IF scan.idx <= Len(cands)
        THEN Goto(r, [rec EXCEPT !.pc = "search_embed", !.idx = scan.idx,
                                 !.text = Combined(cands[scan.idx]), !.list = scan.scored,
                                 !.vecs = scan.vecs, !.calls = rec.calls + 1])
        ELSE /\ task' = Leave(r)
             /\ ret' = SearchReturn([rec EXCEPT !.vecs = scan.vecs],
                                    SortByScore(scan.scored), "semantic")

\* Lines 467-478: the list itself for an empty query, the keyword filter
\* when unavailable, else embedText(normalizedQuery), which returns null at
\* once or invokes the pipeline.
semanticSearch_call(query, prompts) ==
    /\ CanStart
    /\ LET normalizedQuery == TrimCode(query)
           rec == [NewCall("semanticSearch", "search_query") EXCEPT
                      !.text = normalizedQuery, !.query = query, !.arg = prompts]
       IN  IF normalizedQuery = 0
           THEN /\ task' = task
                /\ ret' = SearchReturn(rec, prompts, "empty")
           ELSE IF ~aiAvailable
           THEN /\ task' = task
                /\ ret' = KeywordReturn(rec, "unavailable")
           ELSE IF ~EmbedGuard(normalizedQuery, aiAvailable, modelPipeline)
           THEN /\ task' = task
                /\ ret' = KeywordReturn(rec, "queryFailed")
           ELSE Start([rec EXCEPT !.calls = 1])
    /\ LoaderNotInvoked("semanticSearch")
    /\ UNCHANGED <<storeVars, dom, userContext, chatHistory, loadVars, labelsReady, labelEmbeddingCache,
                   labelCalls>>

\* embedText(normalizedQuery) settles (lines 478-493): the keyword filter on
\* null, else the loop over the candidates starts.
semanticSearch_queryDone(r, out) ==
    /\ r.pc = "search_query"
    /\ IF out = NoVec
       THEN /\ task' = task (-) One(r)
            /\ ret' = KeywordReturn(r, "queryFailed")
       ELSE SearchFrom(r, [r EXCEPT !.vec = out,
                                    !.vecs = [i \in 1..Len(LimitedPrompts(r.arg)) |-> NoVec]],
                       1)
    /\ LoaderNotInvoked("semanticSearch")
    /\ UNCHANGED <<storeVars, dom, userContext, chatHistory, loadVars, labelsReady, labelEmbeddingCache,
                   labelCalls>>

\* embedText(combined) settles for candidate r.idx (lines 499-515): a vector
\* is cached under the prompt's key and scored, null skips the candidate.
semanticSearch_embedDone(r, out) ==
    /\ r.pc = "search_embed"
    /\ LET p == LimitedPrompts(r.arg)[r.idx]
           scored == IF out = NoVec THEN r.list ELSE AddScored(r.list, r.vec, p, out)
       IN  /\ semanticEmbeddingCache' =
                  IF out = NoVec THEN semanticEmbeddingCache
                  ELSE SemanticSet(SemanticKey(p), out)
           /\ SearchFrom(r, [r EXCEPT !.list = scored, !.vecs[r.idx] = out], r.idx + 1)
    /\ LoaderNotInvoked("semanticSearch")
    /\ UNCHANGED <<rehydratingEmbeddings, textEmbeddingCache, store, dom, userContext, chatHistory, loadVars,
                   labelsReady, labelEmbeddingCache, labelCalls>>

\* --------------------------------------------------------------- isDuplicate
\* Lines 359-366: a non-empty persisted embedding as a Float32Array of the
\* same numbers, null for anything else.  A vector code stands for its
\* numbers, which the conversion keeps.
toVector(emb) == IF emb = NoVec THEN NoVec ELSE emb

NoDuplicate == [duplicate |-> FALSE, match |-> 0]

\* Line 611: the match is the prompt of the list itself.
Duplicate(p) == [duplicate |-> TRUE, match |-> p]

IsNearDuplicate_AtLeast(vec, pv) == pv # NoVec /\ Sim(vec, pv) >= 92

\* Line 610: the similarity is strictly above 0.92.
IsNearDuplicate(vec, pv) == pv # NoVec /\ Sim(vec, pv) > 92

PromptKey_Shared(p) == 1

\* Line 564: the key of a prompt in the per-id cache.
PromptKey(p) == p.id

\* The loop of lines 601-613 from prompt i on, up to its next inference
\* call.  getPromptTextEmbedding (lines 563-587) takes the cached vector of
\* the id if there is one, else the persisted embedding, which it caches,
\* else it calls embedText.  kind is "match" (prompt idx is a duplicate),
\* "embed" (embedText invokes the pipeline for prompt idx) or "none" (the
\* loop is over); cache is the per-id cache as the loop leaves it, and vecs
\* the vector the loop resolved for each prompt.
RECURSIVE DuplicateScan(_, _, _, _, _)
DuplicateScan(prompts, vec, i, cache, vecs) ==
    IF i > Len(prompts) THEN [kind |-> "none", idx |-> i, cache |-> cache, vecs |-> vecs]
    ELSE LET p == prompts[i]
             stored == toVector(p.emb)
         IN  IF cache[PromptKey(p)] # NoVec
             THEN LET vecs2 == [vecs EXCEPT ![i] = cache[PromptKey(p)]]
                  IN  IF IsNearDuplicate(vec, cache[PromptKey(p)])
                      THEN [kind |-> "match", idx |-> i, cache |-> cache, vecs |-> vecs2]
                      ELSE DuplicateScan(prompts, vec, i + 1, cache, vecs2)
             ELSE IF stored # NoVec
             THEN LET cache2 == [cache EXCEPT ![PromptKey(p)] = stored]
                      vecs2 == [vecs EXCEPT ![i] = stored]
                  IN  IF IsNearDuplicate(vec, stored)
                      THEN [kind |-> "match", idx |-> i, cache |-> cache2, vecs |-> vecs2]
                      ELSE DuplicateScan(prompts, vec, i + 1, cache2, vecs2)
             ELSE IF EmbedGuard(p.text, aiAvailable, modelPipeline)
             THEN [kind |-> "embed", idx |-> i, cache |-> cache, vecs |-> vecs]
             ELSE DuplicateScan(prompts, vec, i + 1, cache, vecs)

\* What a returning isDuplicate call leaves in ret; seen is the last prompt
\* whose vector the call asked for, path the return taken.
DuplicateReturn(rec, res, seen, path) ==
    [Ret("isDuplicate", res) EXCEPT
        !.query = rec.query, !.list = rec.arg, !.calls = rec.calls, !.seen = seen,
        !.path = path, !.vecs = rec.vecs]

\* The scan goes on from prompt i with the per-id cache as it is now.
DuplicateFrom(r, rec, i, cache) ==
    LET scan == DuplicateScan(rec.arg, rec.vec, i, cache, rec.vecs)
        rec2 == [rec EXCEPT !.vecs = scan.vecs]
    IN  /\ textEmbeddingCache' = scan.cache
        /\ IF scan.kind = "embed"
           THEN Goto(r, [rec2 EXCEPT !.pc = "dup_embed", !.idx = scan.idx,
                                     !.text = rec.arg[scan.idx].text,
                                     !.calls = rec.calls + 1])
           ELSE /\ task' = Leave(r)
                /\ ret' = IF scan.kind = "match"
                          THEN DuplicateReturn(rec2, Duplicate(rec.arg[scan.idx]), scan.idx,
                                               "scanned")
                          ELSE DuplicateReturn(rec2, NoDuplicate, Len(rec.arg), "scanned")

StoreAfterDuplicate_Persisted(p, out) ==
    IF out = NoVec THEN store
    ELSE [i \in 1..Len(store) |->
             IF store[i].id = p.id THEN [store[i] EXCEPT !.emb = out] ELSE store[i]]

\* Lines 563-616 hold no storage call: the stored prompts after isDuplicate
\* has computed the vector out for the prompt p of its list.
StoreAfterDuplicate(p, out) == store

\* Lines 590-595: no duplicate when unavailable, else embedText(newText).
isDuplicate_call(newText, existingPrompts) ==
    /\ CanStart
    /\ LET rec == [NewCall("isDuplicate", "dup_query") EXCEPT
                      !.text = newText, !.query = newText, !.arg = existingPrompts]
       IN  IF ~aiAvailable \/ ~EmbedGuard(newText, aiAvailable, modelPipeline)
           THEN /\ task' = task
                /\ ret' = DuplicateReturn(rec, NoDuplicate, 0,
                                          IF aiAvailable THEN "queryFailed"
                                          ELSE "unavailable")
           ELSE Start([rec EXCEPT !.calls = 1])
    /\ LoaderNotInvoked("isDuplicate")
    /\ UNCHANGED <<storeVars, dom, userContext, chatHistory, loadVars, labelsReady, labelEmbeddingCache,
                   labelCalls>>

\* embedText(newText) settles (lines 595-601): no duplicate on null, else
\* the scan of the existing prompts starts.
isDuplicate_queryDone(r, out) ==
    /\ r.pc = "dup_query"
    /\ IF out = NoVec
       THEN /\ task' = task (-) One(r)
            /\ ret' = DuplicateReturn(r, NoDuplicate, 0, "queryFailed")
            /\ textEmbeddingCache' = textEmbeddingCache
       ELSE DuplicateFrom(r, [r EXCEPT !.vec = out,
                                       !.vecs = [i \in 1..Len(r.arg) |-> NoVec]],
                          1, textEmbeddingCache)
    /\ LoaderNotInvoked("isDuplicate")
    /\ UNCHANGED <<rehydratingEmbeddings, semanticEmbeddingCache, store, dom, userContext, chatHistory,
                   loadVars, labelsReady, labelEmbeddingCache, labelCalls>>

\* embedText(prompt.text) settles inside getPromptTextEmbedding for prompt
\* r.idx (lines 580-613): a vector is cached under the id and compared,
\* null skips the prompt.
isDuplicate_embedDone(r, out) ==
    /\ r.pc = "dup_embed"
    /\ LET p == r.arg[r.idx]
           cache == IF out = NoVec THEN textEmbeddingCache
                    ELSE [textEmbeddingCache EXCEPT ![PromptKey(p)] = out]
       IN  /\ store' = StoreAfterDuplicate(p, out)
           /\ IF IsNearDuplicate(r.vec, out)
              THEN /\ textEmbeddingCache' = cache
                   /\ task' = task (-) One(r)
                   /\ ret' = DuplicateReturn([r EXCEPT !.vecs[r.idx] = out], Duplicate(p),
                                             r.idx, "scanned")
              ELSE DuplicateFrom(r, [r EXCEPT !.vecs[r.idx] = out], r.idx + 1, cache)
    /\ LoaderNotInvoked("isDuplicate")
    /\ UNCHANGED <<rehydratingEmbeddings, semanticEmbeddingCache, dom, userContext, chatHistory,
                   loadVars, labelsReady, labelEmbeddingCache, labelCalls>>

\* -------------------------------------------------------------- specification
\* The module state of utils/ai.js as the script is loaded (lines 204-212),
\* no call issued yet.
InitModule ==
    /\ modelPipeline = 0
    /\ modelLoadingPromise = 0
    /\ aiAvailable = FALSE
    /\ labelsReady = FALSE
    /\ rehydratingEmbeddings = FALSE
    /\ labelEmbeddingCache = [l \in Labels |-> NoVec]
    /\ textEmbeddingCache = [i \in PromptIds |-> NoVec]
    /\ semanticEmbeddingCache = [i \in PromptIds |-> NoVec]
    /\ badge = "Loading AI..."
    /\ task = EmptyBag
    /\ ret = Ret("none", "none")
    /\ lastLoad = "none"
    /\ loaderInFlight = 0
    /\ labelCalls = [l \in Labels |-> 0]
    /\ lastLoaderBy = "none"

\* The module state once an initModel call has resolved true with every
\* label embedded.
InitLoaded ==
    /\ modelPipeline = 1
    /\ modelLoadingPromise = 0
    /\ aiAvailable = TRUE
    /\ labelsReady = TRUE
    /\ rehydratingEmbeddings = FALSE
    /\ labelEmbeddingCache = [l \in Labels |-> Infer(LabelText(l))]
    /\ textEmbeddingCache = [i \in PromptIds |-> NoVec]
    /\ semanticEmbeddingCache = [i \in PromptIds |-> NoVec]
    /\ badge = "AI Ready"
    /\ task = EmptyBag
    /\ ret = Ret("none", "none")
    /\ lastLoad = "ok"
    /\ loaderInFlight = 0
    /\ labelCalls = [l \in Labels |-> 1]
    /\ lastLoaderBy = "initModel"

\* The model lifecycle: initModel, suggestTags and embedText calls, up to
\* NumTasks of them in flight, from the state the script is loaded in.
Init ==
    /\ dom \in {"present", "absent"}
    /\ userContext \in {0, 1}
    /\ chatHistory = <<>>
    /\ store = StoredPrompts
    /\ InitModule

Next ==
    \/ initModel_call
    \/ \E text \in PlainTexts : embedText_call(text)
    \/ \E text \in PlainTexts : suggestTags_call(text)
    \/ \E r \in Running :
        \/ initModel_fastStatus(r)
        \/ \E runtime \in BOOLEAN : initModel_loadStatus(r, runtime)
        \/ \E ok \in BOOLEAN : initModel_loaderSettles(r, ok)
        \/ initModel_readyStatus(r)
        \/ initModel_failStatus(r)
        \/ \E out \in EmbedOutcomes(LabelText(r.idx)) : precompute_embedDone(r, out)
        \/ \E out \in EmbedOutcomes(r.text) : embedText_done(r, out)
        \/ \E readOk \in BOOLEAN : suggestTags_ctx(r, readOk)
        \/ \E out \in EmbedOutcomes(r.text) : suggestTags_embedDone(r, out)

Spec == Init /\ [][Next]_vars

\* The prompt store: rehydratePromptEmbeddings and deletePrompt calls, up to
\* NumTasks of them in flight, over the stored prompts, with the model
\* loaded or never loaded.
InitStore ==
    /\ dom = "present"
    /\ userContext = 0
    /\ chatHistory = <<>>
    /\ store = StoredPrompts
    /\ \/ InitModule
       \/ InitLoaded

NextStore ==
    \/ rehydrate_call(store)
    \/ \E id \in DeletableIds : deletePrompt_call(id)
    \/ \E r \in Running :
        \/ \E out \in EmbedOutcomes(r.text) : rehydrate_embedDone(r, out)
        \/ \E ok \in BOOLEAN : rehydrate_writeDone(r, ok)
        \/ deletePrompt_read(r)
        \/ \E ok \in BOOLEAN : deletePrompt_write(r, ok)

SpecStore == InitStore /\ [][NextStore]_vars

\* The calls of dependent features in flight.
FeatureOps == {"embedText", "suggestTags", "semanticSearch", "isDuplicate", "rehydrate"}

FeaturesRunning == BagSum(task, {r \in Running : r.op \in FeatureOps})

\* A provider that answers the call.
Answered(text) == {Infer(text)}

\* The dependent features next to the lifecycle: initModel calls, and calls
\* of the five features one at a time over the prompts as stored, in every
\* lifecycle state (never loaded, loading, failed, loaded).  The loader may
\* fail and the embedding of a query may fail; the inference calls of the
\* scans and of the labels are answered (Spec and SpecStore have them fail).
NextFeatures ==
    \/ initModel_call
    \/ /\ FeaturesRunning = 0
       /\ \/ \E text \in PlainTexts : embedText_call(text)
          \/ \E text \in PlainTexts : suggestTags_call(text)
          \/ \E query \in PlainTexts : semanticSearch_call(query, store)
          \/ \E newText \in PlainTexts : isDuplicate_call(newText, store)
          \/ rehydrate_call(store)
    \/ \E r \in Running :
        \/ initModel_fastStatus(r)
        \/ \E runtime \in BOOLEAN : initModel_loadStatus(r, runtime)
        \/ \E ok \in BOOLEAN : initModel_loaderSettles(r, ok)
        \/ initModel_readyStatus(r)
        \/ initModel_failStatus(r)
        \/ \E out \in Answered(LabelText(r.idx)) : precompute_embedDone(r, out)
        \/ \E out \in Answered(r.text) : embedText_done(r, out)
        \/ \E readOk \in BOOLEAN : suggestTags_ctx(r, readOk)
        \/ \E out \in Answered(r.text) : suggestTags_embedDone(r, out)
        \/ \E out \in EmbedOutcomes(r.text) : semanticSearch_queryDone(r, out)
        \/ \E out \in Answered(r.text) : semanticSearch_embedDone(r, out)
        \/ \E out \in EmbedOutcomes(r.text) : isDuplicate_queryDone(r, out)
        \/ \E out \in Answered(r.text) : isDuplicate_embedDone(r, out)
        \/ \E out \in Answered(r.text) : rehydrate_embedDone(r, out)
        \/ \E ok \in BOOLEAN : rehydrate_writeDone(r, ok)

InitFeatures ==
    /\ dom = "present"
    /\ userContext = 0
    /\ chatHistory = <<>>
    /\ store = StoredPrompts
    /\ InitModule

SpecFeatures == InitFeatures /\ [][NextFeatures]_vars

\* Duplicate detection over a changing store: one isDuplicate call and one
\* deletePrompt call at a time, side by side, with the model loaded or never
\* loaded.  The stored prompts have one of two texts each, so that prompts
\* with equal and with different texts occur, and some carry the embedding
\* an earlier rehydration persisted.
StoredTexts == {1, 2}

NoneRunning(op) == \A r \in Running : r.op # op

InitDuplicates ==
    /\ dom = "present"
    /\ userContext = 0
    /\ chatHistory = <<>>
    /\ \E texts \in [PromptIds -> StoredTexts], persisted \in SUBSET PromptIds :
          store = [i \in PromptIds |->
                      Prompt(i, texts[i], IF i \in persisted THEN Infer(texts[i]) ELSE NoVec)]
    /\ \/ InitModule
       \/ InitLoaded

NextDuplicates ==
    \/ /\ NoneRunning("isDuplicate")
       /\ \E newText \in PlainTexts : isDuplicate_call(newText, store)
    \/ /\ NoneRunning("deletePrompt")
       /\ \E id \in DeletableIds : deletePrompt_call(id)
    \/ \E r \in Running :
        \/ \E out \in EmbedOutcomes(r.text) : isDuplicate_queryDone(r, out)
        \/ \E out \in EmbedOutcomes(r.text) : isDuplicate_embedDone(r, out)
        \/ deletePrompt_read(r)
        \/ \E ok \in BOOLEAN : deletePrompt_write(r, ok)

SpecDuplicates == InitDuplicates /\ [][NextDuplicates]_vars

\* Edits of prompt texts next to duplicate detection: one updatePrompt call
\* (a new text for a stored prompt) and one isDuplicate call at a time, side
\* by side, over the same stores.
NextEdits ==
    \/ /\ NoneRunning("updatePrompt")
       /\ \E id \in EditableIds, text \in StoredTexts : updatePrompt_call(id, text)
    \/ /\ NoneRunning("isDuplicate")
       /\ \E newText \in PlainTexts : isDuplicate_call(newText, store)
    \/ \E r \in Running :
        \/ updatePrompt_read(r)
        \/ \E ok \in BOOLEAN : updatePrompt_write(r, ok)
        \/ \E out \in EmbedOutcomes(r.text) : isDuplicate_queryDone(r, out)
        \/ \E out \in EmbedOutcomes(r.text) : isDuplicate_embedDone(r, out)

SpecEdits == InitDuplicates /\ [][NextEdits]_vars

\* Search: semanticSearch calls, one at a time, over stored prompts of four
\* kinds (a text; a text in capitals and a tag; a text and two tags; a title
\* and no text), with the model loaded or never loaded, for every query
\* string.
PromptKinds ==
    { [title |-> 0, text |-> 3, tags |-> <<>>],
      [title |-> 0, text |-> 2, tags |-> <<3>>],
      [title |-> 0, text |-> 1, tags |-> <<1, 3>>],
      [title |-> 1, text |-> 0, tags |-> <<>>] }

SearchQueries == StringCodes

InitSearch ==
    /\ dom = "present"
    /\ userContext = 0
    /\ chatHistory = <<>>
    /\ \E kind \in [PromptIds -> PromptKinds] :
          store = [i \in PromptIds |->
                      [Prompt(i, kind[i].text, NoVec) EXCEPT
                          !.title = kind[i].title, !.tags = kind[i].tags]]
    /\ \/ InitModule
       \/ InitLoaded

NextSearch ==
    \/ /\ NoneRunning("semanticSearch")
       /\ \E query \in SearchQueries : semanticSearch_call(query, store)
    \/ \E r \in Running :
        \/ \E out \in EmbedOutcomes(r.text) : semanticSearch_queryDone(r, out)
        \/ \E out \in EmbedOutcomes(r.text) : semanticSearch_embedDone(r, out)

SpecSearch == InitSearch /\ [][NextSearch]_vars

\* Search over a corpus that exceeds the cap by one prompt: semanticSearch
\* calls, one at a time, with the model loaded.  The query may fail to
\* embed; the inference calls for the candidates are answered.
Corpus ==
    [i \in 1..(SEMANTIC_PROMPT_CAP + 1) |-> Prompt(i, 1 + (i % 3), NoVec)]

CorpusQueries == {0, 1, 3}

InitCorpus ==
    /\ dom = "present"
    /\ userContext = 0
    /\ chatHistory = <<>>
    /\ store = StoredPrompts
    /\ InitLoaded

NextCorpus ==
    \/ /\ NoneRunning("semanticSearch")
       /\ \E query \in CorpusQueries : semanticSearch_call(query, Corpus)
    \/ \E r \in Running :
        \/ \E out \in EmbedOutcomes(r.text) : semanticSearch_queryDone(r, out)
        \/ \E out \in Answered(r.text) : semanticSearch_embedDone(r, out)

SpecCorpus == InitCorpus /\ [][NextCorpus]_vars

\* Tag suggestion: suggestTags calls, one at a time, with the model never
\* loaded or loaded.  The vocabulary has one label more than suggestTags
\* returns at most, and the loaded model has embedded any part of it: an
\* inference call that fails during the precomputation leaves its label
\* without a vector (lines 413-419) and labelsReady is set all the same.
TagLabels == 1..(NumLabels + 1)

InitTags ==
    /\ dom = "present"
    /\ userContext \in {0, 1}
    /\ chatHistory = <<>>
    /\ store = StoredPrompts
    /\ modelLoadingPromise = 0
    /\ rehydratingEmbeddings = FALSE
    /\ textEmbeddingCache = [i \in PromptIds |-> NoVec]
    /\ semanticEmbeddingCache = [i \in PromptIds |-> NoVec]
    /\ task = EmptyBag
    /\ ret = Ret("none", "none")
    /\ loaderInFlight = 0
    /\ \/ /\ modelPipeline = 0
          /\ aiAvailable = FALSE
          /\ labelsReady = FALSE
          /\ labelEmbeddingCache = [l \in TagLabels |-> NoVec]
          /\ badge = "Loading AI..."
          /\ lastLoad = "none"
          /\ labelCalls = [l \in TagLabels |-> 0]
          /\ lastLoaderBy = "none"
       \/ /\ modelPipeline = 1
          /\ aiAvailable = TRUE
          /\ labelsReady = TRUE
          /\ \E embedded \in SUBSET TagLabels :
                labelEmbeddingCache =
                    [l \in TagLabels |-> IF l \in embedded THEN Infer(LabelText(l)) ELSE NoVec]
          /\ badge = "AI Ready"
          /\ lastLoad = "ok"
          /\ labelCalls = [l \in TagLabels |-> 1]
          /\ lastLoaderBy = "initModel"

NextTags ==
    \/ /\ NoneRunning("suggestTags")
       /\ \E text \in PlainTexts : suggestTags_call(text)
    \/ \E r \in Running :
        \/ \E readOk \in BOOLEAN : suggestTags_ctx(r, readOk)
        \/ \E out \in EmbedOutcomes(r.text) : suggestTags_embedDone(r, out)

SpecTags == InitTags /\ [][NextTags]_vars

\* The embedding engine: embedText calls for every string, with the model
\* never loaded or with one of the modelled models loaded.
InitEmbed ==
    /\ dom = "present"
    /\ userContext = 0
    /\ chatHistory = <<>>
    /\ store = StoredPrompts
    /\ modelLoadingPromise = 0
    /\ rehydratingEmbeddings = FALSE
    /\ textEmbeddingCache = [i \in PromptIds |-> NoVec]
    /\ semanticEmbeddingCache = [i \in PromptIds |-> NoVec]
    /\ task = EmptyBag
    /\ ret = Ret("none", "none")
    /\ loaderInFlight = 0
    /\ \/ /\ modelPipeline = 0
          /\ aiAvailable = FALSE
          /\ labelsReady = FALSE
          /\ labelEmbeddingCache = [l \in Labels |-> NoVec]
          /\ badge = "Loading AI..."
          /\ lastLoad = "none"
          /\ labelCalls = [l \in Labels |-> 0]
          /\ lastLoaderBy = "none"
       \/ /\ modelPipeline \in Models
          /\ aiAvailable = TRUE
          /\ labelsReady = TRUE
          /\ labelEmbeddingCache = [l \in Labels |-> NoVec]
          /\ badge = "AI Ready"
          /\ lastLoad = "ok"
          /\ labelCalls = [l \in Labels |-> 1]
          /\ lastLoaderBy = "initModel"

NextEmbed ==
    \/ \E text \in StringCodes : embedText_start(text)
    \/ \E r \in Running : embedText_settle(r)

SpecEmbed == InitEmbed /\ [][NextEmbed]_vars

\* Arguments: semanticSearch calls, one at a time, with lists of prompts
\* that the caller made up of stored prompts and null entries, with the
\* model never loaded or loaded.
ArgumentLists ==
    { <<>>, <<NullEntry>>, <<StoredPrompts[1], NullEntry>>, <<NullEntry, StoredPrompts[1]>>,
      StoredPrompts }

InitArguments ==
    /\ dom = "present"
    /\ userContext = 0
    /\ chatHistory = <<>>
    /\ store = StoredPrompts
    /\ \/ InitModule
       \/ InitLoaded

NextArguments ==
    \/ /\ NoneRunning("semanticSearch")
       /\ \E query \in CorpusQueries, prompts \in ArgumentLists :
             semanticSearch_call(query, prompts)
    \/ \E r \in Running :
        \/ \E out \in EmbedOutcomes(r.text) : semanticSearch_queryDone(r, out)
        \/ \E out \in EmbedOutcomes(r.text) : semanticSearch_embedDone(r, out)

SpecArguments == InitArguments /\ [][NextArguments]_vars

\* Persisted: isDuplicate calls, one at a time, with lists the caller read
\* from storage at different times: the same ids, with the text and the
\* persisted embedding the prompts had then.
PersistedLists ==
    { [i \in PromptIds |-> Prompt(i, text, emb)] :
          text \in StoredTexts, emb \in {NoVec} \cup {Infer(t) : t \in StoredTexts} }

InitPersisted ==
    /\ dom = "present"
    /\ userContext = 0
    /\ chatHistory = <<>>
    /\ store = StoredPrompts
    /\ \/ InitModule
       \/ InitLoaded

NextPersisted ==
    \/ /\ NoneRunning("isDuplicate")
       /\ \E newText \in PlainTexts, prompts \in PersistedLists :
             isDuplicate_call(newText, prompts)
    \/ \E r \in Running :
        \/ \E out \in EmbedOutcomes(r.text) : isDuplicate_queryDone(r, out)
        \/ \E out \in EmbedOutcomes(r.text) : isDuplicate_embedDone(r, out)

SpecPersisted == InitPersisted /\ [][NextPersisted]_vars

\* Guards: rehydratePromptEmbeddings calls with the arguments its guard
\* tells apart, while another rehydration may be running.
GuardLists == {<<>>, NotAnArray, StoredPrompts}

InitGuards ==
    /\ dom = "present"
    /\ userContext = 0
    /\ chatHistory = <<>>
    /\ store = StoredPrompts
    /\ \/ InitModule
       \/ InitLoaded

NextGuards ==
    \/ \E prompts \in GuardLists : rehydrate_call(prompts)
    \/ \E r \in Running :
        \/ \E out \in EmbedOutcomes(r.text) : rehydrate_embedDone(r, out)
        \/ \E ok \in BOOLEAN : rehydrate_writeDone(r, ok)

SpecGuards == InitGuards /\ [][NextGuards]_vars

\* Revisions: edits of prompt texts next to semantic search: one
\* updatePrompt call (a new text for a stored prompt) and one semanticSearch
\* call over the stored prompts at a time, side by side.
InitRevisions ==
    /\ dom = "present"
    /\ userContext = 0
    /\ chatHistory = <<>>
    /\ \E texts \in [PromptIds -> StoredTexts] :
          store = [i \in PromptIds |-> Prompt(i, texts[i], NoVec)]
    /\ \/ InitModule
       \/ InitLoaded

NextRevisions ==
    \/ /\ NoneRunning("updatePrompt")
       /\ \E id \in EditableIds, text \in StoredTexts : updatePrompt_call(id, text)
    \/ /\ NoneRunning("semanticSearch")
       /\ \E query \in PlainTexts : semanticSearch_call(query, store)
    \/ \E r \in Running :
        \/ updatePrompt_read(r)
        \/ \E ok \in BOOLEAN : updatePrompt_write(r, ok)
        \/ \E out \in EmbedOutcomes(r.text) : semanticSearch_queryDone(r, out)
        \/ \E out \in EmbedOutcomes(r.text) : semanticSearch_embedDone(r, out)

SpecRevisions == InitRevisions /\ [][NextRevisions]_vars

\* The chat history: createChatHistory, updateChatHistory, deleteChatHistory
\* and clearChatHistory calls, interleaved at their awaits, on a history that
\* is empty, one short of the cap or at the cap as the run begins.  A
\* createChatHistory call is issued once the one before it has read the
\* history, so that calls that read the same history write one after the
\* other; of the other helpers one call each is in flight.
InitHistory ==
    /\ dom = "present"
    /\ userContext = 0
    /\ chatHistory \in {StoredHistory(n) : n \in {0, HISTORY_CAP - 1, HISTORY_CAP}}
    /\ store = <<>>
    /\ InitModule

NextHistory ==
    \/ /\ \A q \in Running : ~(q.op = "createChatHistory" /\ q.pc = "chat_read")
       /\ createChatHistory_call
    \/ /\ NoneRunning("updateChatHistory")
       /\ \E id \in ChatTargets : updateChatHistory_call(id)
    \/ /\ NoneRunning("deleteChatHistory")
       /\ \E id \in ChatTargets : deleteChatHistory_call(id)
    \/ /\ NoneRunning("clearChatHistory")
       /\ clearChatHistory_call
    \/ \E r \in Running :
        \/ createChatHistory_read(r)
        \/ updateChatHistory_read(r)
        \/ deleteChatHistory_read(r)
        \/ \E ok \in BOOLEAN :
            \/ createChatHistory_write(r, ok)
            \/ updateChatHistory_write(r, ok)
            \/ deleteChatHistory_write(r, ok)
            \/ clearChatHistory_write(r, ok)

SpecHistory == InitHistory /\ [][NextHistory]_vars

\* Cosine: calls of cosineSimilarity, with the module as it is at load.
InitCosine ==
    /\ dom = "present"
    /\ userContext = 0
    /\ chatHistory = <<>>
    /\ store = StoredPrompts
    /\ InitModule

NextCosine == \E vecA \in CosineArguments, vecB \in CosineArguments : cosineSimilarity_call(vecA, vecB)

SpecCosine == InitCosine /\ [][NextCosine]_vars

\* ------------------------------------------------------------------ properties
\* The places of a call that runs the load operation (the async IIFE of
\* initModel, lines 435-458).
LoadPcs == {"load_status", "loading", "ready_status", "fail_status"}

IsLoad(r) == r.op = "initModel" /\ (r.pc \in LoadPcs \/ r.pc = "pre_embed")

LoadsRunning == BagSum(task, {r \in Running : IsLoad(r)})

\* C1: no duplicate loads.  At most one invocation of the pipeline loader is
\* in flight at any time, at most one load operation is running, and it is
\* the one whose promise modelLoadingPromise holds; initModel calls that
\* arrive meanwhile only wait for it.
C1_NoDuplicateLoads ==
    /\ loaderInFlight <= 1
    /\ LoadsRunning <= 1
    /\ (LoadsRunning = 1 => modelLoadingPromise # 0)
    /\ \A r \in Running : r.pc = "join" => LoadsRunning = 1

\* C1 witness: the loader is in flight and a second initModel call has
\* arrived and waits for the same load.
C1_Witness ==
    /\ loaderInFlight = 1
    /\ \E r \in Running : r.pc = "join"

\* C2 (as claimed): every initModel call issued while a load is in flight,
\* the label precomputation included, resolves only when that load settles.
C2_CallsDuringLoadAwaitIt ==
    ret.op = "initModel" => ~ret.early

\* C3: once a load has settled its promise is cleared, whether it succeeded
\* or failed (no promise without a running load); and after a failed load,
\* until the next call starts a load, aiAvailable is false, modelPipeline is
\* null and labelsReady is false, so that the next initModel call takes
\* neither the fast path nor the join and loads afresh.
C3_SettledLoadCleared ==
    /\ (modelLoadingPromise # 0 => LoadsRunning = 1)
    /\ (lastLoad # "none" /\ LoadsRunning = 0 => modelLoadingPromise = 0)
    /\ (lastLoad = "failed" /\ modelLoadingPromise = 0 =>
            /\ ~aiAvailable
            /\ modelPipeline = 0
            /\ ~labelsReady
            /\ ~AlreadyLoaded /\ ~JoinsLoad)

\* C3 witness: a load failed and settled, and a later initModel call has
\* invoked the loader again.
C3_Witness ==
    /\ lastLoad = "failed"
    /\ loaderInFlight = 1
    /\ ret.op = "initModel" /\ ret.res = "false"

\* C4: no dependent feature retries the load.  In every lifecycle state
\* (never loaded, loading, failed, loaded) the pipeline loader is invoked
\* by initModel only: the last invocation, if any, was made by an initModel
\* call, and a loader in flight belongs to an initModel call waiting for it.
C4_OnlyInitModelLoads ==
    /\ lastLoaderBy \in {"none", "initModel"}
    /\ loaderInFlight > 0 =>
          \E r \in Running : r.op = "initModel" /\ r.pc = "loading"

\* C4 witness: after a failed load a feature was called, has returned, and
\* no load is in flight.
C4_Witness ==
    /\ lastLoad = "failed"
    /\ ~aiAvailable
    /\ ret.op \in FeatureOps
    /\ loaderInFlight = 0
    /\ modelLoadingPromise = 0

\* C5 (as claimed): no label is passed to the inference provider a second
\* time (the model is never reloaded once it is available).
C5_LabelsEmbeddedOnce ==
    \A l \in Labels : labelCalls[l] <= 1

\* The rehydration calls inside the body of rehydratePromptEmbeddings.
RehydrationsRunning == BagSum(task, {r \in Running : r.op = "rehydrate"})

\* C6: rehydration is mutually exclusive.  At most one call is inside the
\* body, the busy flag is set exactly while one is, and a call that arrives
\* while the flag is set returns false at once, having embedded nothing and
\* written nothing, and leaves the flag to the call that holds it.
C6_RehydrationExclusive ==
    /\ RehydrationsRunning <= 1
    /\ rehydratingEmbeddings <=> RehydrationsRunning = 1
    /\ (ret.op = "rehydrate" /\ ret.busy) =>
          /\ ret.res = FALSE
          /\ ret.wrote = 0
          /\ ret.gained = 0
          /\ ~ret.failed

\* C6 witness: a call was turned away by the busy flag and the call that
\* holds the flag is still running.
C6_Witness ==
    /\ ret.op = "rehydrate"
    /\ ret.busy
    /\ rehydratingEmbeddings
    /\ RehydrationsRunning = 1

\* C7 (as claimed): a rehydration whose scan gave at least one prompt an
\* embedding has issued one write and returns true; otherwise it has issued
\* none and returns false.
C7_TrueIffGainedAsClaimed ==
    ret.op = "rehydrate" =>
        IF ret.gained >= 1
        THEN ret.wrote = 1 /\ ret.res = TRUE
        ELSE ret.wrote = 0 /\ ret.res = FALSE

\* C7 (amended): a rehydration issues one storage write, of the whole
\* updated collection, exactly when its scan gave at least one prompt an
\* embedding, and none otherwise; it returns true exactly when that write
\* was issued and succeeded, and false if nothing was gained or the write
\* was rejected.
C7_SingleWholeWrite ==
    ret.op = "rehydrate" =>
        /\ ret.wrote <= 1
        /\ ret.whole
        /\ ret.gained >= 1 <=> ret.wrote = 1
        /\ ret.res = TRUE <=> (ret.wrote = 1 /\ ~ret.writeFailed)

\* C7 witness: a rehydration has returned true and the stored collection is
\* the whole list, in which a prompt carries a new embedding and another
\* one, whose inference failed, is still there without one.
C7_Witness ==
    /\ ret.op = "rehydrate"
    /\ ret.res = TRUE
    /\ ret.failed
    /\ ret.gained >= 1
    /\ Len(store) = MaxPrompts
    /\ \E i \in 1..Len(store) : HasEmbedding(store[i])
    /\ \E i \in 1..Len(store) : ~HasEmbedding(store[i])

C9_FailureReturnsFalseAsClaimed ==
    (ret.op = "rehydrate" /\ (ret.failed \/ ret.writeFailed)) => ret.res = FALSE

\* C9 (amended): no failure during rehydration reaches the caller and the
\* busy flag is always released.  The call resolves to a boolean; a rejected
\* storage write makes it false; a failed inference only leaves that prompt
\* without an embedding, and the call still returns true if another prompt
\* gained one and the write succeeded.  The flag is never set without a
\* call inside the body.
C9_FailuresContained ==
    /\ rehydratingEmbeddings => RehydrationsRunning >= 1
    /\ ret.op = "rehydrate" =>
          /\ ret.res \in BOOLEAN
          /\ ret.writeFailed => ret.res = FALSE
          /\ (ret.failed /\ ~ret.writeFailed) => (ret.res = TRUE <=> ret.gained >= 1)

\* C9 witness: the storage write of a rehydration was rejected; the call has
\* returned false and the flag is released.
C9_Witness ==
    /\ ret.op = "rehydrate"
    /\ ret.writeFailed
    /\ ret.res = FALSE
    /\ ~rehydratingEmbeddings
    /\ RehydrationsRunning = 0

\* C10 (as claimed): once deletePrompt(id) has succeeded, the per-id
\* embedding cache holds no entry for id.
C10_DeleteEvictsCacheAsClaimed ==
    (ret.op = "deletePrompt" /\ ret.res = "ok") =>
        textEmbeddingCache[ret.arg] = NoVec

\* The texts isDuplicate treats as the same: their vectors are more than
\* 0.92 similar.
SimilarTexts(t, u) == IsNearDuplicate(Infer(t), Infer(u))

\* C11: isDuplicate only returns a match that is an element of the list it
\* was given, and that prompt is itself similar to the candidate; when no
\* prompt of the list is, the answer is no duplicate, whatever the per-id
\* cache still holds for prompts deleted since.
C11_MatchIsListedPrompt ==
    ret.op = "isDuplicate" =>
        /\ ret.res.duplicate =>
              \E i \in 1..Len(ret.list) :
                  /\ ret.list[i] = ret.res.match
                  /\ SimilarTexts(ret.list[i].text, ret.query)
        /\ (\A i \in 1..Len(ret.list) : ~SimilarTexts(ret.list[i].text, ret.query)) =>
              ~ret.res.duplicate

\* C11 witness: isDuplicate was called with the text of a deleted prompt,
\* whose vector is still cached under its id, on the remaining prompts,
\* none of which is similar; it made its inference calls and found no
\* duplicate.
C11_Witness ==
    /\ ret.op = "isDuplicate"
    /\ ~ret.res.duplicate
    /\ ret.list # <<>>
    /\ ret.seen = Len(ret.list)
    /\ \E a \in PromptIds :
          /\ \A i \in 1..Len(ret.list) : ret.list[i].id # a
          /\ \A i \in 1..Len(store) : store[i].id # a
          /\ IsNearDuplicate(Infer(ret.query), textEmbeddingCache[a])

\* C12 (as claimed): once a call of updatePrompt with a new text has
\* succeeded and nothing is in flight, every embedding a stored prompt
\* carries, and every vector cached under its id, is that of its text.
C12_NoStaleEmbeddingAsClaimed ==
    (ret.op = "updatePrompt" /\ ret.res = "ok" /\ task = EmptyBag) =>
        \A i \in 1..Len(store) :
            /\ HasEmbedding(store[i]) => store[i].emb = Infer(store[i].text)
            /\ textEmbeddingCache[store[i].id] # NoVec =>
                  textEmbeddingCache[store[i].id] = Infer(store[i].text)

\* str contains part as a substring, letter case ignored.
ContainsIgnoringCase(str, part) ==
    \E k \in 0..Len(str) :
        /\ k + Len(part) <= Len(str)
        /\ \A j \in 1..Len(part) : LowerChar(str[k + j]) = LowerChar(part[j])

\* The prompts whose title, text or space-joined tags contain the trimmed
\* query, letter case ignored, in input order.
KeywordResult(query, prompts) ==
    LET wanted == trim(Chars(query))
    IN  SelectSeq(prompts, LAMBDA p :
            \/ ContainsIgnoringCase(Chars(p.title), wanted)
            \/ ContainsIgnoringCase(Chars(p.text), wanted)
            \/ ContainsIgnoringCase(join(p.tags), wanted))

\* C13: when the model is unavailable or the query fails to embed,
\* semanticSearch returns exactly the input prompts, in input order, whose
\* title, text or space-joined tags contain the trimmed query, letter case
\* ignored; it makes no inference call for any prompt (none at all when the
\* model is unavailable, the one for the query otherwise).
C13_KeywordFallback ==
    (ret.op = "semanticSearch" /\ ret.path \in {"unavailable", "queryFailed"}) =>
        /\ ret.res = KeywordResult(ret.query, ret.list)
        /\ ret.calls = IF ret.path = "unavailable" THEN 0 ELSE 1

\* C13 witness: the query, given in capitals or between blanks, failed to
\* embed, and the keyword filter kept some of the prompts and dropped
\* others.
C13_Witness ==
    /\ ret.op = "semanticSearch"
    /\ ret.path = "queryFailed"
    /\ Chars(ret.query) # toLowerCase(trim(Chars(ret.query)))
    /\ Len(ret.res) > 0
    /\ Len(ret.res) < Len(ret.list)

\* The vector of the trimmed query a semantic search scored with.
QueryVector == Infer(TrimCode(ret.query))

\* The candidates of the returned search that belong in a semantic result:
\* their vector resolved and is more than 0.25 similar to the query's.
Qualifying ==
    {i \in 1..Len(ret.vecs) : ret.vecs[i] # NoVec /\ Sim(QueryVector, ret.vecs[i]) > 25}

\* The position in the input list of the prompt a result entry copies.
PositionOf(entry) == CHOOSE i \in 1..Len(ret.list) : ret.list[i].id = entry.id

\* C14: on the semantic path the result holds exactly the candidates whose
\* vector resolved and whose similarity to the query is above 0.25 (0.25
\* itself is not), each once, as the prompt plus its score, by
\* non-increasing score and, among equal scores, in input order.
C14_SemanticResult ==
    (ret.op = "semanticSearch" /\ ret.path = "semantic") =>
        /\ Len(ret.res) = Cardinality(Qualifying)
        /\ \A i \in Qualifying :
              \E j \in 1..Len(ret.res) :
                  ret.res[j] = Scored(ret.list[i], Sim(QueryVector, ret.vecs[i]))
        /\ \A j \in 1..Len(ret.res) : PositionOf(ret.res[j]) \in Qualifying
        /\ \A j, k \in 1..Len(ret.res) :
              j < k =>
                  \/ ret.res[j].score > ret.res[k].score
                  \/ /\ ret.res[j].score = ret.res[k].score
                     /\ PositionOf(ret.res[j]) < PositionOf(ret.res[k])

\* C14 witness: a semantic search has returned a result that leaves out a
\* candidate whose vector resolved and scored exactly 0.25.
C14_Witness ==
    /\ ret.op = "semanticSearch"
    /\ ret.path = "semantic"
    /\ Len(ret.res) >= 1
    /\ \E i \in 1..Len(ret.vecs) : ret.vecs[i] # NoVec /\ Sim(QueryVector, ret.vecs[i]) = 25

\* The prompts a returned search has in its result lie within the cap.
ResultWithinCap ==
    \A j \in 1..Len(ret.res) : PositionOf(ret.res[j]) <= SEMANTIC_PROMPT_CAP

\* No search is waiting for the embedding of a prompt beyond the cap, and
\* the semantic cache holds no vector for one.
NoEmbeddingBeyondCap ==
    /\ \A r \in Running :
          (r.op = "semanticSearch" /\ r.pc = "search_embed") => r.idx <= SEMANTIC_PROMPT_CAP
    /\ \A k \in DOMAIN semanticEmbeddingCache :
          semanticEmbeddingCache[k] # NoVec => k <= SEMANTIC_PROMPT_CAP

\* C15 (as claimed): with the model available, a search embeds, scores and
\* returns no prompt beyond the first 200 of the input order.
C15_CapOnEveryReturnAsClaimed ==
    /\ NoEmbeddingBeyondCap
    /\ (ret.op = "semanticSearch" /\ aiAvailable) =>
          /\ Len(ret.vecs) <= SEMANTIC_PROMPT_CAP
          /\ ResultWithinCap

\* C15 (amended): with the model available, a search never embeds or scores
\* a prompt beyond the first 200 of the input order, and a search whose
\* query is not empty and embeds returns none; a search with an empty query
\* returns the whole list, and one whose query fails to embed returns the
\* keyword matches of the whole list.
C15_CapOnSemanticPath ==
    /\ NoEmbeddingBeyondCap
    /\ (ret.op = "semanticSearch" /\ aiAvailable) =>
          /\ Len(ret.vecs) <= SEMANTIC_PROMPT_CAP
          /\ ret.path = "semantic" => ResultWithinCap
          /\ ret.path = "empty" => ret.res = ret.list
          /\ ret.path = "queryFailed" => ret.res = KeywordResult(ret.query, ret.list)

\* C15 witness: a semantic search over a corpus of 201 prompts has scored
\* the first 200 and returned.
C15_Witness ==
    /\ ret.op = "semanticSearch"
    /\ ret.path = "semantic"
    /\ Len(ret.list) > SEMANTIC_PROMPT_CAP
    /\ Len(ret.vecs) = SEMANTIC_PROMPT_CAP
    /\ \A i \in 1..Len(ret.vecs) : ret.vecs[i] # NoVec
    /\ Len(ret.res) > 0

\* C16: a semanticSearch call whose query is empty or holds only whitespace
\* returns the list it was given, unchanged, without a call of the inference
\* provider, and changes no cache, no stored prompt and no other module
\* state, whether the model is available or not.
C16_EmptyQueryIsNoOp ==
    [][(/\ ret' # ret
        /\ ret'.op = "semanticSearch"
        /\ trim(Chars(ret'.query)) = <<>>)
          => /\ ret'.res = ret'.list
             /\ ret'.calls = 0
             /\ UNCHANGED <<dom, userContext, chatHistory, modelPipeline, modelLoadingPromise,
                            aiAvailable, labelsReady, labelEmbeddingCache, badge,
                            rehydratingEmbeddings, textEmbeddingCache,
                            semanticEmbeddingCache, store, task, lastLoad,
                            loaderInFlight, labelCalls, lastLoaderBy>>]_vars

\* C16 witness: with the model loaded and vectors of an earlier search in
\* the cache, a search for a whitespace-only query has returned the list.
C16_Witness ==
    /\ ret.op = "semanticSearch"
    /\ ret.path = "empty"
    /\ Chars(ret.query) # <<>>
    /\ aiAvailable
    /\ modelPipeline # 0
    /\ Len(ret.res) > 0
    /\ \E k \in DOMAIN semanticEmbeddingCache : semanticEmbeddingCache[k] # NoVec

\* The prompts of the scanned list whose resolved vector is more than 0.92
\* similar to the candidate's.
Hits ==
    {i \in 1..Len(ret.list) :
        ret.vecs[i] # NoVec /\ Sim(Infer(ret.query), ret.vecs[i]) > 92}

\* The vector a prompt of the scanned list has: the one persisted with it
\* or else the one of its text.
VectorOf(p) == IF HasEmbedding(p) THEN toVector(p.emb) ELSE Infer(p.text)

\* C17: a scan of isDuplicate goes through the prompts in the given order
\* and returns the first whose similarity to the candidate is above 0.92
\* (0.92 itself is not), having resolved the vector of every earlier prompt
\* that has one and none for a later prompt; when no prompt is above 0.92 it
\* returns no duplicate after all of them.
C17_FirstAboveThreshold ==
    (ret.op = "isDuplicate" /\ ret.path = "scanned") =>
        /\ \A i \in 1..Len(ret.list) : ret.vecs[i] \in {NoVec, VectorOf(ret.list[i])}
        /\ IF ret.res.duplicate
           THEN /\ ret.seen \in Hits
                /\ ret.res.match = ret.list[ret.seen]
                /\ \A i \in 1..(ret.seen - 1) : i \notin Hits
                /\ \A i \in (ret.seen + 1)..Len(ret.list) : ret.vecs[i] = NoVec
                /\ ret.calls <= 1 + ret.seen
           ELSE /\ Hits = {}
                /\ ret.seen = Len(ret.list)

\* C17 witness: the first prompt of the list resolved to a vector exactly
\* 0.92 similar to the candidate's and was passed over; the second is the
\* match.
C17_Witness ==
    /\ ret.op = "isDuplicate"
    /\ ret.path = "scanned"
    /\ ret.res.duplicate
    /\ ret.seen = 2
    /\ ret.vecs[1] # NoVec
    /\ Sim(Infer(ret.query), ret.vecs[1]) = 92

\* C18: a call of isDuplicate made while the model is unavailable, or whose
\* candidate text is empty or fails to embed, returns no duplicate and has
\* resolved the vector of no prompt of its list: no inference call but the
\* one for the candidate, none at all when unavailable or empty.
C18_FailsOpen ==
    (ret.op = "isDuplicate" /\ (ret.path # "scanned" \/ ret.query = 0)) =>
        /\ ret.path \in {"unavailable", "queryFailed"}
        /\ ret.res = NoDuplicate
        /\ ret.seen = 0
        /\ ret.vecs = <<>>
        /\ ret.calls = IF ret.path = "unavailable" \/ ret.query = 0 THEN 0 ELSE 1

\* C18 witness: with the model loaded, the candidate failed to embed while
\* the list held a prompt with the candidate's text, and the call returned
\* no duplicate.
C18_Witness ==
    /\ ret.op = "isDuplicate"
    /\ ret.path = "queryFailed"
    /\ ret.calls = 1
    /\ ~ret.res.duplicate
    /\ \E i \in 1..Len(ret.list) : ret.list[i].text = ret.query

\* The isDuplicate calls in flight in a bag of calls.
DuplicateCalls(calls) == {r \in BagToSet(calls) : r.op = "isDuplicate"}

\* A step of an isDuplicate call: one starts, goes on or returns.
DuplicateStep ==
    \/ DuplicateCalls(task') # DuplicateCalls(task)
    \/ ret' # ret /\ ret'.op = "isDuplicate"

\* C19: a step of isDuplicate writes nothing to storage and leaves the
\* list it was given and the prompts in it as they are, also when it has
\* computed a missing embedding; all it changes is the per-id cache, to
\* which it only adds entries.
C19_NeverPersists ==
    [][DuplicateStep =>
          /\ store' = store
          /\ \A r \in DuplicateCalls(task), r2 \in DuplicateCalls(task') : r2.arg = r.arg
          /\ \A r \in DuplicateCalls(task) :
                (ret' # ret /\ ret'.op = "isDuplicate") => ret'.list = r.arg
          /\ \A k \in DOMAIN textEmbeddingCache :
                textEmbeddingCache[k] # NoVec => textEmbeddingCache'[k] = textEmbeddingCache[k]
          /\ UNCHANGED <<dom, userContext, chatHistory, modelPipeline, modelLoadingPromise, aiAvailable,
                         labelsReady, labelEmbeddingCache, badge, rehydratingEmbeddings,
                         semanticEmbeddingCache, lastLoad, loaderInFlight, labelCalls,
                         lastLoaderBy>>]_vars

\* C19 witness: isDuplicate has returned after computing the embedding of a
\* stored prompt that has none; the vector is in the per-id cache and the
\* stored prompt still has no embedding.
C19_Witness ==
    /\ ret.op = "isDuplicate"
    /\ ret.path = "scanned"
    /\ ret.calls >= 2
    /\ \E i \in 1..Len(store) :
          /\ ~HasEmbedding(store[i])
          /\ \E j \in 1..Len(ret.list) : ret.list[j] = store[i] /\ ret.vecs[j] # NoVec
          /\ textEmbeddingCache[store[i].id] = Infer(store[i].text)

\* The suggestTags calls in flight.
TagCalls == {r \in Running : r.op = "suggestTags"}

\* labels is what suggestTags may return for the text vector vec and the
\* label vectors of cache: at most two labels of the vocabulary, each more
\* than 0.4 similar to vec, by non-increasing similarity, and no label left
\* out that is above 0.4 unless two at least as similar are returned.
IsTopTwo(labels, vec, cache) ==
    /\ Len(labels) <= 2
    /\ \A k \in 1..Len(labels) : labels[k] \in DOMAIN cache
    /\ \A j, k \in 1..Len(labels) : j # k => labels[j] # labels[k]
    /\ \A k \in 1..Len(labels) : Sim(vec, cache[labels[k]]) > 40
    /\ \A j, k \in 1..Len(labels) :
          j < k => Sim(vec, cache[labels[j]]) >= Sim(vec, cache[labels[k]])
    /\ \A l \in DOMAIN cache :
          (Sim(vec, cache[l]) > 40 /\ \A k \in 1..Len(labels) : labels[k] # l) =>
              /\ Len(labels) = 2
              /\ \A k \in 1..Len(labels) : Sim(vec, cache[labels[k]]) >= Sim(vec, cache[l])

\* C20: suggestTags returns the empty list at once when the model is
\* unavailable, and without an inference call when the text to embed is
\* empty; the text it embeds is the given text, prefixed by the user context
\* when one was read; when the embedding fails it returns the empty list,
\* and otherwise at most two labels of the vocabulary, each more than 0.4
\* similar to the embedded text (0.4 itself is not), by descending
\* similarity, the highest-scoring of those above 0.4: the empty list when
\* no label is.
C20_TopTwoLabels ==
    [][/\ (task' = task /\ ret' # ret /\ ret'.op = "suggestTags") =>
              ~aiAvailable /\ ret'.res = <<>>
       /\ \A r \in TagCalls :
              /\ (r.pc = "tags_ctx" /\ task' = task (-) One(r)) =>
                    /\ r.text = 0 \/ ~aiAvailable \/ modelPipeline = 0
                    /\ ret'.op = "suggestTags"
                    /\ ret'.res = <<>>
              /\ (r.pc = "tags_ctx" /\ task' # task /\ task' # task (-) One(r)) =>
                    \E r2 \in BagToSet(task') :
                        /\ r2.pc = "tags_embed"
                        /\ r2.text \in {r.text, CtxBase + r.text}
                        /\ r2.text = r.text => (userContext = 0 \/ r.text # 0)
              /\ (r.pc = "tags_embed" /\ task' = task (-) One(r)) =>
                    /\ ret'.op = "suggestTags"
                    /\ \/ ret'.res = <<>>
                       \/ IsTopTwo(ret'.res, Infer(r.text), labelEmbeddingCache')
              /\ (r.pc = "pre_embed" /\ task' = task (-) One(r)) =>
                    /\ ret'.op = "suggestTags"
                    /\ IsTopTwo(ret'.res, r.vec, labelEmbeddingCache')]_vars

\* C20 witness: three labels were more than 0.4 similar to the
\* context-prefixed text, the first two equally; suggestTags returned those
\* two and left out the third.
C20_Witness ==
    /\ ret.op = "suggestTags"
    /\ Len(ret.res) = 2
    /\ userContext # 0
    /\ \E l \in DOMAIN labelEmbeddingCache :
          /\ \A k \in 1..Len(ret.res) : ret.res[k] # l
          /\ labelEmbeddingCache[l] # NoVec
          /\ \E t \in PlainTexts :
                /\ Sim(Infer(CtxBase + t), labelEmbeddingCache[l]) > 40
                /\ \A k \in 1..Len(ret.res) :
                      Sim(Infer(CtxBase + t), labelEmbeddingCache[ret.res[k]]) >
                          Sim(Infer(CtxBase + t), labelEmbeddingCache[l])

\* C21: embedText returns null, and calls the pipeline not once, whenever
\* its text is empty or holds only whitespace or the model is unavailable
\* (aiAvailable false or no pipeline); no pipeline call is in flight for
\* such a call.
C21_NullWithoutInference ==
    /\ (ret.op = "embedText" /\
           (trim(Chars(ret.query)) = <<>> \/ ~aiAvailable \/ modelPipeline = 0)) =>
          /\ ret.res = Null
          /\ ret.calls = 0
    /\ \A r \in Running :
          r.op = "embedText" =>
              /\ trim(Chars(r.query)) # <<>>
              /\ aiAvailable
              /\ modelPipeline # 0

\* C21 witness: with a model loaded, embedText was called with a text of
\* whitespace only and returned null without a pipeline call.
C21_Witness ==
    /\ ret.op = "embedText"
    /\ Chars(ret.query) # <<>>
    /\ trim(Chars(ret.query)) = <<>>
    /\ aiAvailable
    /\ modelPipeline # 0
    /\ ret.res = Null
    /\ ret.calls = 0

\* The output has no shape embedText knows: it is neither tensor-like nor
\* an array, or its list of dimensions is empty.
UnrecognisedShape(raw) ==
    \/ raw.t \notin {"tensor", "arr"}
    \/ raw.t = "tensor" /\ raw.dims = <<>>

\* C22: a call of embedText that has called the pipeline resolves to null
\* or to a vector, never with something thrown; it resolves to null when
\* the pipeline call threw or rejected and when its output has an
\* unrecognised shape.
C22_NeverThrows ==
    (ret.op = "embedText" /\ ret.calls = 1) =>
        /\ ret.res.t \in {"null", "vec"}
        /\ (ret.arg = Thrown \/ UnrecognisedShape(ret.arg)) => ret.res = Null

\* C22 witness: the pipeline call threw and embedText returned null.
C22_Witness ==
    /\ ret.op = "embedText"
    /\ ret.calls = 1
    /\ ret.arg = Thrown
    /\ ret.res = Null

\* C23 (as claimed): no call of a public operation rejects: initModel does
\* not, and semanticSearch does not, whatever list of prompts it is given.
C23_NoOperationRejects ==
    /\ ret.op = "initModel" => ret.res # "rejected"
    /\ ret.op = "semanticSearch" => ret.path # "rejected"

\* The claim's cases of a pair of arguments: one of them absent, both
\* empty, of different lengths, or one of them of norm zero.
IsAbsent(vec) == vec.t = "null"

IsZeroNorm(vec) == \A i \in 1..Len(vec.v) : vec.v[i] = 0

DegenerateArguments(vecA, vecB) ==
    \/ IsAbsent(vecA) \/ IsAbsent(vecB)
    \/ /\ ~IsAbsent(vecA) /\ ~IsAbsent(vecB)
       /\ \/ Len(vecA.v) # Len(vecB.v)
          \/ Len(vecA.v) = 0 /\ Len(vecB.v) = 0
          \/ IsZeroNorm(vecA) \/ IsZeroNorm(vecB)

\* C24: cosineSimilarity returns the number 0, and so does not throw, when
\* either vector is absent, when both are empty, when their lengths differ
\* or when either has norm zero.
C24_ZeroForDegenerate ==
    ret.op = "cosineSimilarity" =>
        (DegenerateArguments(ret.arg[1], ret.arg[2]) => ret.res = Num(0))

\* A call with vectors of the same length, one of them of norm zero and
\* not empty, has returned 0.
C24_Witness ==
    /\ ret.op = "cosineSimilarity"
    /\ ~IsAbsent(ret.arg[1]) /\ ~IsAbsent(ret.arg[2])
    /\ Len(ret.arg[1].v) = 2 /\ Len(ret.arg[2].v) = 2
    /\ IsZeroNorm(ret.arg[1]) /\ ~IsZeroNorm(ret.arg[2])
    /\ ret.res = Num(0)

\* None of the three caches holds a vector.
NoCachedVector ==
    /\ \A l \in DOMAIN labelEmbeddingCache : labelEmbeddingCache[l] = NoVec
    /\ \A i \in DOMAIN textEmbeddingCache : textEmbeddingCache[i] = NoVec
    /\ \A i \in DOMAIN semanticEmbeddingCache : semanticEmbeddingCache[i] = NoVec

\* The step in which a loader call resolves and the model becomes
\* available (lines 443-444).
LoadSucceeds == loaderInFlight' < loaderInFlight /\ aiAvailable'

\* C25: whenever a load succeeds after an earlier load had succeeded or
\* failed, none of the label, per-id and semantic caches holds a vector
\* computed before that reload.
C25_NoVectorSurvivesReload ==
    [][(LoadSucceeds /\ lastLoad # "none") => NoCachedVector']_vars

\* A load has succeeded after a failed one, and the label cache is being
\* filled again.
C25_Witness ==
    /\ lastLoad = "failed"
    /\ aiAvailable
    /\ modelPipeline # 0
    /\ \E l \in DOMAIN labelEmbeddingCache : labelEmbeddingCache[l] # NoVec

\* C26 (as claimed): the vector isDuplicate compares with, for a prompt of
\* its list that carries a non-empty persisted embedding, is that persisted
\* embedding, whatever the per-id cache holds for the prompt's id.
C26_PersistedEmbeddingIsUsed ==
    (ret.op = "isDuplicate" /\ ret.path = "scanned") =>
        \A i \in 1..Len(ret.list) :
            (HasEmbedding(ret.list[i]) /\ ret.vecs[i] # NoVec) =>
                ret.vecs[i] = toVector(ret.list[i].emb)

\* No initModel call is executing and at least one has completed: with a
\* document every completed call has settled a load or followed one.
LifecycleAtRest == NoneRunning("initModel") /\ lastLoad # "none"

\* C27: where there is a badge, whenever no initModel call is executing and
\* at least one has completed, the badge shows 'AI Ready' exactly when
\* aiAvailable is true and 'AI Unavailable' exactly when the last load
\* failed; once initModel has been called, 'Loading AI...' is shown only
\* while a load is in flight.
C27_BadgeReflectsLifecycle ==
    dom = "present" =>
        /\ LifecycleAtRest =>
              /\ (badge = "AI Ready") <=> aiAvailable
              /\ (badge = "AI Unavailable") <=> (lastLoad = "failed")
        /\ (badge = "Loading AI..." /\ (lastLoad # "none" \/ ~NoneRunning("initModel"))) =>
              modelLoadingPromise # 0

\* A load has failed, no initModel call is executing, and the badge says
\* so.
C27_Witness ==
    /\ dom = "present"
    /\ LifecycleAtRest
    /\ lastLoad = "failed"
    /\ badge = "AI Unavailable"
    /\ ~aiAvailable

\* Every component of the vector is zero.
IsZeroVector(v) == \A i \in 1..Len(v) : v[i] = <<0, 1>>

\* A tensor-like output of rank 1 to 3 all of whose numbers are zero: its
\* pooled vector has magnitude zero.
AllZeroTensor(raw) ==
    /\ raw.t = "tensor"
    /\ Len(raw.dims) \in 1..3
    /\ \A i \in 1..Len(raw.dims) : raw.dims[i] >= 1
    /\ \A i \in 1..Len(raw.data) : raw.data[i] = 0

\* Two returns of embedText in a row for the same text, with the same
\* pipeline and availability, return the same.
SameTextSameResult ==
    (/\ ret.op = "embedText" /\ ret'.op = "embedText"
     /\ ret'.query = ret.query
     /\ modelPipeline' = modelPipeline /\ aiAvailable' = aiAvailable) =>
        ret'.res = ret.res

\* C28: every vector embedText returns has L2 norm 1 or is a zero vector,
\* which it is, and not null, when the pooled vector has magnitude zero;
\* with the model and its availability fixed, the result is a function of
\* the text.
C28_UnitNormAndDeterministic ==
    /\ [](ret.op = "embedText" =>
            /\ ret.res.t = "vec" =>
                  (SquaredNorm(ret.res.v) = <<1, 1>> \/ IsZeroVector(ret.res.v))
            /\ (ret.calls = 1 /\ AllZeroTensor(ret.arg)) =>
                  (ret.res.t = "vec" /\ IsZeroVector(ret.res.v)))
    /\ [][SameTextSameResult]_vars

\* embedText returned a vector of norm 1 that is not the pooled vector: the
\* division by the norm took place.
C28_Witness ==
    /\ ret.op = "embedText"
    /\ ret.res.t = "vec"
    /\ SquaredNorm(ret.res.v) = <<1, 1>>
    /\ \E i \in 1..Len(ret.res.v) : ret.res.v[i][2] # 1

\* The levels of nesting of a non-empty array output, told by its first
\* items: 1 for an array of leaves, 2 for an array of such arrays, 3 for an
\* array of those.
Levels(raw) ==
    IF raw.items[1].t # "arr" THEN 1
    ELSE IF raw.items[1].items = <<>> \/ raw.items[1].items[1].t # "arr" THEN 2
    ELSE 3

\* The leaves of an array of leaves as numbers, non-numeric leaves as 0.
LeafRow(items) == [i \in 1..Len(items) |-> NumberOrZero(items[i])]

\* The token rows of an output in one of the claim's shapes: one row of
\* hidden numbers per token, of the first sequence of a batch.  A rank-1
\* tensor and a 1-level array are one row.
TokenRows(raw) ==
    IF raw.t = "tensor"
    THEN LET hidden == raw.dims[Len(raw.dims)]
             tokens == IF Len(raw.dims) = 1 THEN 1 ELSE raw.dims[Len(raw.dims) - 1]
         IN  [t \in 1..tokens |-> [f \in 1..hidden |-> raw.data[(t - 1) * hidden + f]]]
    ELSE IF Levels(raw) = 1 THEN <<LeafRow(raw.items)>>
    ELSE IF Levels(raw) = 2 THEN [t \in 1..Len(raw.items) |-> LeafRow(raw.items[t].items)]
    ELSE [t \in 1..Len(raw.items[1].items) |-> LeafRow(raw.items[1].items[t].items)]

\* The output is tensor-like of rank 1, 2 or 3 with a flat buffer that
\* holds the numbers its dims announce, or a non-empty nested array of 1, 2
\* or 3 levels.
KnownShape(raw) ==
    \/ /\ raw.t = "tensor"
       /\ Len(raw.dims) \in 1..3
       /\ \A i \in 1..Len(raw.dims) : raw.dims[i] >= 1
       /\ Len(raw.data) >= (IF Len(raw.dims) = 1 THEN 1 ELSE raw.dims[Len(raw.dims) - 1])
                               * raw.dims[Len(raw.dims)]
    \/ /\ raw.t = "arr"
       /\ raw.items # <<>>
       /\ Levels(raw) = 3 => raw.items[1].items[1].items # <<>>

\* The sum over the tokens of feature f: the per-feature mean times the
\* number of tokens.
FeatureSum(rows, f) == QSum([t \in 1..Len(rows) |-> <<rows[t][f], 1>>])

\* v is the vector of sums m scaled by a number that is not negative.
Proportional(v, m) ==
    /\ \A i, j \in 1..Len(v) : QMul(v[i], m[j]) = QMul(v[j], m[i])
    /\ \A i \in 1..Len(v) : v[i][1] * m[i][1] >= 0
    /\ (\E i \in 1..Len(m) : m[i] # <<0, 1>>) => (\E i \in 1..Len(v) : v[i] # <<0, 1>>)

\* C29 (as claimed): for a tensor-like output of rank 1, 2 or 3 and for a
\* nested array of 1, 2 or 3 levels, the vector embedText returns has the
\* length of the hidden dimension and is proportional to the per-feature
\* mean over the tokens, non-numeric leaves counted as 0.
C29_PooledOverTokens ==
    (ret.op = "embedText" /\ ret.calls = 1 /\ ret.arg # Thrown /\ KnownShape(ret.arg)) =>
        LET rows == TokenRows(ret.arg)
            hidden == Len(rows[1])
        IN  /\ ret.res.t = "vec"
            /\ Len(ret.res.v) = hidden
            /\ Proportional(ret.res.v, [f \in 1..hidden |-> FeatureSum(rows, f)])

\* list is input with, in place of some prompts that had no embedding, the
\* same prompt plus an embedding: same length, same order, every other
\* prompt and every other field as given.
CopyWithEmbeddings(list, input) ==
    /\ Len(list) = Len(input)
    /\ \A i \in 1..Len(input) :
          \/ list[i] = input[i]
          \/ /\ ~HasEmbedding(input[i])
             /\ HasEmbedding(list[i])
             /\ list[i] = [input[i] EXCEPT !.emb = list[i].emb]

\* A step of a rehydration in flight leaves the array it was given, and
\* the prompts in it, as they were: at most one rehydration is in flight.
InputKept ==
    \A r \in Running :
        r.op = "rehydrate" =>
            \A r2 \in DOMAIN task' : r2.op = "rehydrate" => r2.arg = r.arg

\* The step in which a rehydration's write succeeds stores its copy.
WriteIsCopy ==
    \A r \in Running :
        (r.op = "rehydrate" /\ r.pc = "rehy_write" /\ r \notin DOMAIN task'
           /\ ~ret'.writeFailed) =>
            /\ store' = r.list
            /\ CopyWithEmbeddings(store', r.arg)

\* C30: rehydratePromptEmbeddings works on a copy: the array it was given
\* and the prompts in it are never changed; in the copy, a prompt that
\* gains an embedding is replaced by the same prompt plus the embedding,
\* prompts that have an embedding or fail to embed are as given; what is
\* written is that copy, with the order and the length of the input.
C30_CopyOnWrite ==
    /\ [](\A r \in Running : r.op = "rehydrate" => CopyWithEmbeddings(r.list, r.arg))
    /\ [][InputKept /\ WriteIsCopy]_vars

\* A rehydration wrote its copy after one prompt gained an embedding and
\* another failed to embed: the stored list has both, in the input's order.
C30_Witness ==
    /\ ret.op = "rehydrate"
    /\ ret.wrote = 1
    /\ ~ret.writeFailed
    /\ ret.failed
    /\ ret.gained >= 1
    /\ Len(store) = MaxPrompts
    /\ \E i, j \in 1..Len(store) : HasEmbedding(store[i]) /\ ~HasEmbedding(store[j])

\* The keys a cache has an entry for.
Keys(cache) == {k \in DOMAIN cache : cache[k] # NoVec}

\* C31: the caches are additive: no step of any operation, whatever else
\* is in flight, takes a key out of the label cache, the per-id cache or
\* the semantic cache.
C31_CachesOnlyGrow ==
    [][/\ Keys(labelEmbeddingCache) \subseteq Keys(labelEmbeddingCache')
       /\ Keys(textEmbeddingCache) \subseteq Keys(textEmbeddingCache')
       /\ Keys(semanticEmbeddingCache) \subseteq Keys(semanticEmbeddingCache')]_vars

\* All three caches hold entries, the semantic cache more than one, while
\* a call is in flight.
C31_Witness ==
    /\ Keys(labelEmbeddingCache) # {}
    /\ Keys(textEmbeddingCache) # {}
    /\ Cardinality(Keys(semanticEmbeddingCache)) >= 2
    /\ task # EmptyBag

\* The step in which the userContext read of the suggestTags call r
\* settles: the call goes on to embed the text with the stored context or
\* the text alone, as a call with no stored context does, or it returns.
ContextReadSettles(r) ==
    /\ r.op = "suggestTags"
    /\ r.pc = "tags_ctx"
    /\ r \notin DOMAIN task'

\* C32: a failed userContext read in suggestTags is swallowed: after the
\* read settles the call embeds the text with the stored context, or the
\* text alone exactly as a call with no stored context does, or it has
\* returned a list; it carries no trace of the failure and never rejects.
C32_ContextReadFailureSwallowed ==
    [][\A r \in Running :
          ContextReadSettles(r) =>
              \/ /\ task' = task (-) One(r)
                 /\ ret'.op = "suggestTags"
                 /\ ret'.res = <<>>
              \/ \E text \in {ContextualText(userContext, r.text), ContextualText(0, r.text)} :
                    task' = (task (-) One(r)) (+) One([r EXCEPT !.pc = "tags_embed",
                                                                !.text = text])]_vars

\* A context is stored, and a suggestTags call is embedding its text
\* alone: its read of the context failed.
C32_Witness ==
    /\ userContext = 1
    /\ \E r \in Running :
          /\ r.op = "suggestTags"
          /\ r.pc = "tags_embed"
          /\ r.text \in 1..MaxText

\* The step returns a rehydratePromptEmbeddings call that was made with
\* the model unavailable, or with an empty list or no array.
GuardedRehydrateReturns ==
    /\ ret' # ret
    /\ ret'.op = "rehydrate"
    /\ ~aiAvailable \/ ret'.list = <<>> \/ ~IsArray(ret'.list)

\* C33: rehydratePromptEmbeddings called while the model is unavailable, or
\* with an empty list or with something that is no array, returns false in
\* the step of the call: no inference call is started, nothing is written
\* and the busy flag is as it was.
C33_GuardedCallIsNoOp ==
    [][GuardedRehydrateReturns =>
          /\ ret'.res = FALSE
          /\ ret'.wrote = 0
          /\ task' = task
          /\ store' = store
          /\ rehydratingEmbeddings' = rehydratingEmbeddings
          /\ textEmbeddingCache' = textEmbeddingCache]_vars

\* A call with an empty list returned false while another rehydration holds
\* the busy flag.
C33_Witness ==
    /\ ret.op = "rehydrate"
    /\ ret.list = <<>>
    /\ ret.res = FALSE
    /\ aiAvailable
    /\ rehydratingEmbeddings

\* The ids of the prompts of a list.
IdsOf(list) == {list[i].id : i \in 1..Len(list)}

\* C34 (as claimed): the whole-collection write of a rehydration never
\* puts a stale snapshot over a newer collection: the step in which the
\* write succeeds brings back no prompt that a deletePrompt, persisted
\* while the rehydration was scanning, had removed from storage.
C34_NoDeletedPromptResurrected ==
    [][\A r \in Running :
          (r.op = "rehydrate" /\ r.pc = "rehy_write" /\ r \notin DOMAIN task'
             /\ ~ret'.writeFailed) =>
              IdsOf(store') \subseteq IdsOf(store)]_vars

\* C35: in every state another task can observe, aiAvailable is true only
\* with a pipeline and a pipeline is there only with aiAvailable true: the
\* two are set together when the loader resolves and cleared together in
\* the catch block.
C35_AvailableHasPipeline ==
    /\ aiAvailable => modelPipeline # 0
    /\ modelPipeline # 0 => aiAvailable

\* A load has made the model available while its caller still awaits the
\* label embeddings, after an earlier load had failed.
C35_Witness ==
    /\ aiAvailable
    /\ modelPipeline # 0
    /\ lastLoad = "failed"
    /\ \E r \in Running : r.op = "initModel" /\ r.pc = "pre_embed"

\* C36: availability is monotonic after success: once a load has resolved
\* true the model is available, and from the moment it is available it
\* stays so, with the same pipeline, and no step invokes the loader again.
C36_NeverReloaded ==
    /\ [](lastLoad = "ok" => aiAvailable)
    /\ [][aiAvailable =>
             /\ aiAvailable'
             /\ modelPipeline' = modelPipeline
             /\ loaderInFlight' <= loaderInFlight
             /\ lastLoad = "ok" => lastLoad' = "ok"]_vars

\* A load has resolved true and a later initModel call is on the fast path.
C36_Witness ==
    /\ lastLoad = "ok"
    /\ aiAvailable
    /\ loaderInFlight = 0
    /\ \E r \in Running : r.op = "initModel" /\ r.pc = "fast_status"

\* Every inference call made for label l has settled and none left a
\* vector: the label's embedding failed.
LabelFailed(l) ==
    /\ labelCalls[l] >= 1
    /\ labelEmbeddingCache[l] = NoVec
    /\ \A r \in Running : ~(r.pc = "pre_embed" /\ r.idx = l)

\* C37 (as claimed): while the model stays loaded, a label whose embedding
\* failed during precomputeLabelEmbeddings gets no cache entry and is never
\* passed to the inference provider again.
C37_FailedLabelNotRetriedAsClaimed ==
    [][\A l \in Labels :
          (aiAvailable /\ LabelFailed(l)) =>
              /\ labelEmbeddingCache'[l] = NoVec
              /\ labelCalls'[l] = labelCalls[l]]_vars

\* C38 (as claimed): the vector semanticSearch scores a prompt with is the
\* embedding of the title and text the prompt has in the list the search
\* was given, also when an earlier search saw the same id with another
\* text.
C38_CurrentTextIsScored ==
    (ret.op = "semanticSearch" /\ ret.path = "semantic") =>
        \A i \in 1..Len(ret.vecs) :
            ret.vecs[i] # NoVec =>
                ret.vecs[i] = Infer(Combined(LimitedPrompts(ret.list)[i]))

\* ---------------------------------------------------------------- C39
\* A createChatHistory call whose write has just replaced the stored history.
CreateWrites(r) ==
    /\ r.op = "createChatHistory"
    /\ r.pc = "chat_write"
    /\ task' = task (-) One(r)
    /\ ret'.res = "ok"

\* The stored history is the entry of the call r followed by the history the
\* call had read, without the entries at its end that do not fit the cap.
NewestFirstOldestDropped(r, history) ==
    /\ Len(history) = (IF Len(r.arg) < HISTORY_CAP THEN Len(r.arg) + 1 ELSE HISTORY_CAP)
    /\ history[1] = ChatEntry(r.idx)
    /\ \A i \in 2..Len(history) : history[i] = r.arg[i - 1]

\* C39: in every interleaving of createChatHistory, updateChatHistory,
\* deleteChatHistory and clearChatHistory calls the stored chat history has at
\* most HISTORY_CAP entries, and a createChatHistory call that writes stores
\* its new entry first, followed by the history it read without the oldest
\* entries beyond the cap.
C39_HistoryCapped ==
    /\ [](Len(chatHistory) <= HISTORY_CAP)
    /\ [][\A r \in Running : CreateWrites(r) => NewestFirstOldestDropped(r, chatHistory')]_vars

\* A createChatHistory call read a history that was at the cap while another
\* chat-history call was in flight, and has written: the stored history is at
\* the cap, its first entry is the new one and the oldest entry the call had
\* read is gone.
C39_Witness ==
    /\ ret.op = "createChatHistory"
    /\ ret.res = "ok"
    /\ ret.calls = HISTORY_CAP
    /\ Len(chatHistory) = HISTORY_CAP
    /\ chatHistory[1].id = ret.arg
    /\ \A i \in 1..Len(chatHistory) : chatHistory[i].id # ret.seen
    /\ \E r \in Running : r.op \in ChatOps

====
